---------------------------- MODULE Spec2Model ----------------------------
(***************************************************************************)
(* Excel translator: the translation pipeline of src/src/App.tsx           *)
(* (handleTranslate), src/src/utils/translation.ts (translateCells,        *)
(* translateBatch, parseTranslationResponse, postProcessTranslations) and  *)
(* the cell classifier of utils/excel.ts (shouldSkipCell).                 *)
(*                                                                         *)
(* Texts are sequences of UTF-16 code units.  An ASCII code unit is the    *)
(* one-character string itself; a Devanagari code unit is written "d_" +   *)
(* its Unicode name (d_PA, d_VIRAMA, d_vAA for the vowel sign AA, d_1 for  *)
(* the Devanagari digit one).                                              *)
(***************************************************************************)
EXTENDS Integers, Sequences, FiniteSets

(***************************************************************************)
(* Bounds of the model.                                                    *)
(***************************************************************************)
\* translation.ts:20 has batchSize = 50; the model scales it down so that a
\* sheet of a few cells is split into several batches.
batchSize == 2
\* Largest number of cells of the one uploaded sheet.
MaxCells == 3
\* Largest number of columns of a row.
MaxCols == 2
\* Largest number of response lines beyond the number of texts sent.
MaxExtraLines == 1
\* Number of handleTranslate invocations explored.
MaxRuns == 1
\* Number of further handleTranslate invocations, explored on workbooks of
\* at most MaxRerunCells cells.
MaxReruns == 1
MaxRerunCells == 1
\* Number of files uploaded.
MaxUploads == 1
\* Number of changes the user makes with the controls of the settings step.
MaxEdits == 1

(***************************************************************************)
(* Text primitives (JavaScript String methods and the regular expressions *)
(* the code applies).                                                      *)
(***************************************************************************)
AsciiDigits == {"0", "1", "2", "3", "4", "5", "6", "7", "8", "9"}
HindiDigits == {"d_0", "d_1", "d_2", "d_3", "d_4", "d_5", "d_6", "d_7", "d_8", "d_9"}
UpperCase == <<"A", "B", "C", "D", "E", "F", "G", "H", "I", "J", "K", "L", "M",
               "N", "O", "P", "Q", "R", "S", "T", "U", "V", "W", "X", "Y", "Z">>
LowerCase == <<"a", "b", "c", "d", "e", "f", "g", "h", "i", "j", "k", "l", "m",
               "n", "o", "p", "q", "r", "s", "t", "u", "v", "w", "x", "y", "z">>
Range(f) == {f[i] : i \in DOMAIN f}

\* \s of a regular expression and the white space String.prototype.trim removes
IsSpace(c) == c \in {" ", "\t"}

\* index of the first code unit at or after position i that is not in class C
\* (Len(s) + 1 when there is none)
SkipClass(s, i, C) ==
  LET rest == {j \in i..Len(s) : s[j] \notin C}
  IN  IF rest = {} THEN Len(s) + 1 ELSE CHOOSE j \in rest : \A k \in rest : j <= k

\* s.slice(i - 1): the suffix that starts at the 1-based position i
Suffix(s, i) == IF i > Len(s) THEN <<>> ELSE SubSeq(s, i, Len(s))

\* String.prototype.trim
Trim(s) ==
  LET ns == {j \in 1..Len(s) : ~IsSpace(s[j])}
  IN  IF ns = {} THEN <<>>
      ELSE SubSeq(s, CHOOSE j \in ns : \A k \in ns : j <= k,
                     CHOOSE j \in ns : \A k \in ns : j >= k)

\* s.replace(/^[digits]+\.\s*/, '') for a class of digits
StripPrefix(s, digits) ==
  LET d == SkipClass(s, 1, digits)
  IN  IF d > 1 /\ d <= Len(s) /\ s[d] = "."
      THEN Suffix(s, SkipClass(s, d + 1, {" ", "\t"}))
      ELSE s

\* s.startsWith(w) at the 1-based position i
MatchAt(s, i, w) == i + Len(w) - 1 <= Len(s) /\ SubSeq(s, i, i + Len(w) - 1) = w

\* String.prototype.includes
Includes(s, w) == \E i \in 1..(Len(s) + 1) : MatchAt(s, i, w)

\* s.replace(new RegExp(w, 'g'), r) for a word w without special characters:
\* every non-overlapping occurrence, leftmost first
RECURSIVE ReplaceFrom(_, _, _, _)
ReplaceFrom(s, i, w, r) ==
  IF i > Len(s) THEN <<>>
  ELSE IF Len(w) > 0 /\ MatchAt(s, i, w) THEN r \o ReplaceFrom(s, i + Len(w), w, r)
  ELSE <<s[i]>> \o ReplaceFrom(s, i + 1, w, r)
ReplaceAll(s, w, r) == ReplaceFrom(s, 1, w, r)

\* String.prototype.toLowerCase on the ASCII letters
ToLowerCase(s) ==
  [i \in 1..Len(s) |->
     IF \E k \in 1..26 : UpperCase[k] = s[i]
     THEN LowerCase[CHOOSE k \in 1..26 : UpperCase[k] = s[i]]
     ELSE s[i]]


(***************************************************************************)
(* JavaScript values of a cell: string | number | boolean | null.  An      *)
(* optional property is a sequence of length at most one: <<>> when it is  *)
(* undefined, <<x>> when it holds x.                                       *)
(***************************************************************************)
Str(s) == [ty |-> "string", s |-> s, n |-> 0]
Num(k) == [ty |-> "number", s |-> <<>>, n |-> k]
Bool(b) == [ty |-> "boolean", s |-> <<>>, n |-> IF b THEN 1 ELSE 0]
Null == [ty |-> "null", s |-> <<>>, n |-> 0]
Undefined == <<>>
Some(x) == <<x>>

\* Number.prototype.toString for a natural number
DigitChars == <<"0", "1", "2", "3", "4", "5", "6", "7", "8", "9">>
RECURSIVE NumToString(_)
NumToString(k) ==
  IF k < 10 THEN <<DigitChars[k + 1]>>
  ELSE NumToString(k \div 10) \o <<DigitChars[(k % 10) + 1]>>

\* v.toString()
toString(v) ==
  CASE v.ty = "string" -> v.s
    [] v.ty = "number" -> NumToString(v.n)
    [] v.ty = "boolean" -> IF v.n = 1 THEN <<"t", "r", "u", "e">>
                           ELSE <<"f", "a", "l", "s", "e">>
    [] OTHER -> <<>>

\* the truthiness of a value (the test `cell.v && ...`)
Truthy(v) ==
  CASE v.ty = "string" -> v.s /= <<>>
    [] v.ty = "number" -> v.n /= 0
    [] v.ty = "boolean" -> v.n = 1
    [] OTHER -> FALSE

\* typeof v === 'string' || typeof v === 'number'
IsStringOrNumber(v) == v.ty \in {"string", "number"}

(***************************************************************************)
(* The cell classifier (utils/excel.ts).                                   *)
(***************************************************************************)
\* /^[^\s@]+@[^\s@]+\.[^\s@]+$/.test(value)
isEmail(value) ==
  LET ats == {i \in 1..Len(value) : value[i] = "@"}
  IN  /\ \A i \in 1..Len(value) : ~IsSpace(value[i])
      /\ Cardinality(ats) = 1
      /\ LET at == CHOOSE i \in ats : TRUE
         IN  /\ at > 1
             /\ \E p \in (at + 2)..(Len(value) - 1) : value[p] = "."

\* the schemes the URL parser treats as special and that need a host
SpecialSchemes == { <<"h", "t", "t", "p">>, <<"h", "t", "t", "p", "s">>,
                    <<"f", "t", "p">>, <<"w", "s">>, <<"w", "s", "s">> }

\* new URL(value) does not throw: value (leading and trailing white space
\* removed) starts with a scheme and ':'; a special scheme also needs a host
isUrl(value) ==
  LET t == ToLowerCase(Trim(value))
      SchemeChars == Range(LowerCase) \cup AsciiDigits \cup {"+", "-", "."}
      colon == SkipClass(t, 1, SchemeChars)
  IN  /\ Len(t) > 0
      /\ t[1] \in Range(LowerCase)
      /\ colon <= Len(t)
      /\ t[colon] = ":"
      /\ LET scheme == SubSeq(t, 1, colon - 1)
             host == SkipClass(t, colon + 1, {"/", "\\"})
         IN  scheme \in SpecialSchemes =>
               /\ host <= Len(t)
               /\ t[host] \notin {"?", "#", ":", " "}

\* /^[A-Z\-_]+$/.test(value)
IsCodeShape(value) ==
  /\ Len(value) > 0
  /\ \A i \in 1..Len(value) : value[i] \in Range(UpperCase) \cup {"-", "_"}

\* a shouldSkipCell that compares the glossary terms with the case they have
shouldSkipCellCaseSensitive(cell, glossary) ==
  IF ~Truthy(cell.v) THEN TRUE
  ELSE LET value == Trim(toString(cell.v))
       IN  \/ value = <<>>
           \/ cell.t = "f"
           \/ cell.t = "d"
           \/ isEmail(value)
           \/ isUrl(value)
           \/ \E k \in 1..Len(glossary) : Includes(value, glossary[k].term)
           \/ (IsCodeShape(value) /\ Len(value) <= 10)

\* shouldSkipCell(cell, glossary)
shouldSkipCell(cell, glossary) ==
  IF ~Truthy(cell.v) THEN TRUE
  ELSE LET value == Trim(toString(cell.v))
       IN  \/ value = <<>>
           \/ cell.t = "f"
           \/ cell.t = "d"
           \/ isEmail(value)
           \/ isUrl(value)
           \/ \E k \in 1..Len(glossary) :
                Includes(ToLowerCase(value), ToLowerCase(glossary[k].term))
           \/ (IsCodeShape(value) /\ Len(value) <= 10)

(***************************************************************************)
(* The response parser and the post-processor (utils/translation.ts).     *)
(* A response body is held as the sequence of its lines, that is, as the  *)
(* value of response.split('\n').                                          *)
(***************************************************************************)
\* Array.prototype.slice(0, k)
Take(s, k) == IF Len(s) <= k THEN s ELSE SubSeq(s, 1, k)

\* the padding loop: push '' while translations.length < expectedCount
PadTo(s, k) == s \o [i \in 1..(IF k > Len(s) THEN k - Len(s) ELSE 0) |-> <<>>]

\* parseTranslationResponse(response, expectedCount)
parseTranslationResponse(response, expectedCount) ==
  LET trimmed == [i \in 1..Len(response) |-> Trim(response[i])]
      lines == SelectSeq(trimmed, LAMBDA line : Len(line) > 0)
      cleaned == [i \in 1..Len(lines) |-> StripPrefix(lines[i], AsciiDigits)]
      translations == Take(SelectSeq(cleaned, LAMBDA t : Len(t) > 0), expectedCount)
  IN  PadTo(translations, expectedCount)

columnHeaders ==
  << <<"Q", "u", "e", "s", "t", "i", "o", "n">>,
     <<"O", "p", "t", "i", "o", "n", "1">>,
     <<"O", "p", "t", "i", "o", "n", "2">>,
     <<"O", "p", "t", "i", "o", "n", "3">>,
     <<"O", "p", "t", "i", "o", "n", "4">>,
     <<"C", "o", "r", "r", "e", "c", "t", " ", "a", "n", "s">>,
     <<"A", "n", "s", "w", "e", "r">>,
     <<"E", "x", "p", "l", "a", "n", "a", "t", "i", "o", "n">> >>

\* the pairs <<formal word, colloquial word>> in the order of the object literal
formalWordReplacements ==
  << << <<"d_AU", "d_PA", "d_CA", "d_vAA", "d_RA", "d_vI", "d_KA">>,
        <<"d_JA", "d_NUKTA", "d_RA", "d_vUU", "d_RA", "d_vII">> >>,
     << <<"d_PA", "d_VIRAMA", "d_RA", "d_SA", "d_VIRAMA", "d_TA", "d_vAA", "d_VA">>,
        <<"d_YA", "d_vO", "d_JA", "d_NA", "d_vAA">> >>,
     << <<"d_SA", "d_VIRAMA", "d_PA", "d_SSA", "d_VIRAMA", "d_TTA", "d_TA", "d_vAA">>,
        <<"d_SA", "d_vAA", "d_PHA", "d_NUKTA", " ", "d_SA", "d_MA", "d_JHA">> >>,
     << <<"d_PA", "d_VIRAMA", "d_RA", "d_SHA", "d_vI", "d_KA", "d_VIRAMA", "d_SSA", "d_NNA">>,
        <<"d_SA", "d_vII", "d_KHA", "d_NA", "d_vE", " ", "d_KA", "d_vII", " ", "d_PA", "d_HA", "d_LA">> >>,
     << <<"d_PA", "d_VIRAMA", "d_RA", "d_KA", "d_VIRAMA", "d_RA", "d_vI", "d_YA", "d_vAA">>,
        <<"d_TA", "d_RA", "d_vII", "d_KA", "d_vAA">> >>,
     << <<"d_SA", "d_ANUSVARA", "d_DA", "d_RA", "d_VIRAMA", "d_BHA">>,
        <<"d_SA", "d_vAA", "d_THA">> >>,
     << <<"d_VA", "d_vI", "d_SHA", "d_VIRAMA", "d_LA", "d_vE", "d_SSA", "d_NNA">>,
        <<"d_JA", "d_vAA", "d_ANUSVARA", "d_CA">> >>,
     << <<"d_SA", "d_vU", "d_LA", "d_BHA">>,
        <<"d_AA", "d_SA", "d_vAA", "d_NA">> >>,
     << <<"d_SA", "d_VIRAMA", "d_THA", "d_vAA", "d_PA", "d_vI", "d_TA">>,
        <<"d_MA", "d_JA", "d_NUKTA", "d_BA", "d_vUU", "d_TA", " ", "d_KA", "d_RA", "d_NA", "d_vAA">> >>,
     << <<"d_SA", "d_HA", "d_BHA", "d_vAA", "d_GA", "d_vI", "d_TA", "d_vAA">>,
        <<"d_BHA", "d_vAA", "d_GA", "d_vII", "d_DA", "d_vAA", "d_RA", "d_vII">> >>,
     << <<"d_KA", "d_vAA", "d_RA", "d_VIRAMA", "d_YA", "d_vAA", "d_NA", "d_VIRAMA", "d_VA", "d_YA", "d_NA">>,
        <<"d_LA", "d_vAA", "d_GA", "d_vUU", " ", "d_KA", "d_RA", "d_NA", "d_vAA">> >>,
     << <<"d_PA", "d_RA", "d_vI", "d_NNA", "d_vAA", "d_MA">>,
        <<"d_NA", "d_TA", "d_vII", "d_JA", "d_vAA">> >>,
     << <<"d_U", "d_DA", "d_VIRAMA", "d_DA", "d_vE", "d_SHA", "d_VIRAMA", "d_YA">>,
        <<"d_LA", "d_KA", "d_VIRAMA", "d_SSA", "d_VIRAMA", "d_YA">> >>,
     << <<"d_PA", "d_VIRAMA", "d_RA", "d_vAA", "d_PA", "d_VIRAMA", "d_TA", "d_vI">>,
        <<"d_HA", "d_vAA", "d_SA", "d_vI", "d_LA", " ", "d_KA", "d_RA", "d_NA", "d_vAA">> >>,
     << <<"d_VA", "d_VIRAMA", "d_YA", "d_VA", "d_SA", "d_VIRAMA", "d_THA", "d_vAA">>,
        <<"d_I", "d_ANUSVARA", "d_TA", "d_JA", "d_NUKTA", "d_vAA", "d_MA">> >>,
     << <<"d_PA", "d_VIRAMA", "d_RA", "d_BA", "d_ANUSVARA", "d_DHA", "d_NA">>,
        <<"d_SA", "d_ANUSVARA", "d_CA", "d_vAA", "d_LA", "d_NA">> >>,
     << <<"d_VA", "d_vI", "d_KA", "d_vAA", "d_SA">>,
        <<"d_BA", "d_DDHA", "d_NUKTA", "d_vAA", "d_VA", "d_vAA">> >>,
     << <<"d_SA", "d_vU", "d_DHA", "d_vAA", "d_RA">>,
        <<"d_BA", "d_vE", "d_HA", "d_TA", "d_RA", " ", "d_BA", "d_NA", "d_vAA", "d_NA", "d_vAA">> >>,
     << <<"d_NA", "d_vI", "d_RA", "d_vII", "d_KA", "d_VIRAMA", "d_SSA", "d_NNA">>,
        <<"d_JA", "d_vAA", "d_ANUSVARA", "d_CA">> >>,
     << <<"d_PA", "d_RA", "d_vII", "d_KA", "d_VIRAMA", "d_SSA", "d_NNA">>,
        <<"d_TTA", "d_vE", "d_SA", "d_VIRAMA", "d_TTA">> >> >>
headerMappings ==
  << << <<"Q", "u", "e", "s", "t", "i", "o", "n">>,
        <<"d_PA", "d_VIRAMA", "d_RA", "d_SHA", "d_VIRAMA", "d_NA">> >>,
     << <<"O", "p", "t", "i", "o", "n", "1">>,
        <<"d_VA", "d_vI", "d_KA", "d_LA", "d_VIRAMA", "d_PA", " ", "1">> >>,
     << <<"O", "p", "t", "i", "o", "n", "2">>,
        <<"d_VA", "d_vI", "d_KA", "d_LA", "d_VIRAMA", "d_PA", " ", "2">> >>,
     << <<"O", "p", "t", "i", "o", "n", "3">>,
        <<"d_VA", "d_vI", "d_KA", "d_LA", "d_VIRAMA", "d_PA", " ", "3">> >>,
     << <<"O", "p", "t", "i", "o", "n", "4">>,
        <<"d_VA", "d_vI", "d_KA", "d_LA", "d_VIRAMA", "d_PA", " ", "4">> >>,
     << <<"C", "o", "r", "r", "e", "c", "t", " ", "a", "n", "s">>,
        <<"d_SA", "d_HA", "d_vII", " ", "d_U", "d_TA", "d_VIRAMA", "d_TA", "d_RA">> >>,
     << <<"A", "n", "s", "w", "e", "r">>,
        <<"d_U", "d_TA", "d_VIRAMA", "d_TA", "d_RA">> >>,
     << <<"E", "x", "p", "l", "a", "n", "a", "t", "i", "o", "n">>,
        <<"d_VA", "d_VIRAMA", "d_YA", "d_vAA", "d_KHA", "d_VIRAMA", "d_YA", "d_vAA">> >> >>

\* headerMappings[key]: the mapped label, or undefined
HeaderLookup(key) ==
  LET hits == {k \in 1..Len(headerMappings) : headerMappings[k][1] = key}
  IN  IF hits = {} THEN Undefined
      ELSE Some(headerMappings[CHOOSE k \in hits : TRUE][2])

\* the column mappings the Marathi prompt template states
\* (components/PromptEditor.tsx:159)
marathiColumnMappings ==
  << << <<"Q", "u", "e", "s", "t", "i", "o", "n">>,
        <<"d_PA", "d_VIRAMA", "d_RA", "d_SHA", "d_VIRAMA", "d_NA">> >>,
     << <<"O", "p", "t", "i", "o", "n", "1">>,
        <<"d_PA", "d_RA", "d_VIRAMA", "d_YA", "d_vAA", "d_YA", " ", "1">> >>,
     << <<"C", "o", "r", "r", "e", "c", "t", " ", "a", "n", "s">>,
        <<"d_YA", "d_vO", "d_GA", "d_VIRAMA", "d_YA", " ", "d_U", "d_TA", "d_VIRAMA", "d_TA", "d_RA">> >> >>

\* the label the prompt templates give a header in a target language: the
\* Hindi template (PromptEditor.tsx:69) states entries of headerMappings, the
\* Marathi template its own; undefined where the template states none
CanonicalLabel(target, key) ==
  IF target = "hi-IN" THEN HeaderLookup(key)
  ELSE LET hits == {k \in 1..Len(marathiColumnMappings) : marathiColumnMappings[k][1] = key}
       IN  IF hits = {} THEN Undefined
           ELSE Some(marathiColumnMappings[CHOOSE k \in hits : TRUE][2])

\* the loop over Object.entries(formalWordReplacements), from entry k on
RECURSIVE ReplaceFormalWords(_, _)
ReplaceFormalWords(text, k) ==
  IF k > Len(formalWordReplacements) THEN text
  ELSE LET formalWord == formalWordReplacements[k][1]
           colloquialWord == formalWordReplacements[k][2]
       IN  ReplaceFormalWords(
             IF Includes(text, formalWord)
             THEN ReplaceAll(text, formalWord, colloquialWord)
             ELSE text,
             k + 1)

\* a map callback that strips a header's ordinal and keeps what the backend
\* answered
PostProcessOneKeepingAnswer(translation, originalText) ==
  IF Trim(originalText) \in Range(columnHeaders)
  THEN StripPrefix(translation, HindiDigits \cup AsciiDigits)
  ELSE ReplaceFormalWords(translation, 1)

\* the body of the map callback of postProcessTranslations
PostProcessOne(translation, originalText) ==
  IF Trim(originalText) \in Range(columnHeaders)
  THEN LET cleaned == StripPrefix(translation, HindiDigits \cup AsciiDigits)
           expectedTranslation == HeaderLookup(Trim(originalText))
       IN  IF expectedTranslation /= Undefined /\ expectedTranslation[1] /= <<>>
              /\ cleaned /= expectedTranslation[1]
           THEN expectedTranslation[1]
           ELSE cleaned
  ELSE ReplaceFormalWords(translation, 1)

\* postProcessTranslations(translations, originalTexts)
postProcessTranslations(translations, originalTexts) ==
  [index \in 1..Len(translations) |->
     PostProcessOne(translations[index], originalTexts[index])]

\* translateBatch(texts, settings, glossary) once fetch has answered with a
\* body whose text is `response`: parse, then post-process
translateBatch(texts, response) ==
  postProcessTranslations(parseTranslationResponse(response, Len(texts)), texts)

(***************************************************************************)
(* Cells and sheets (types.ts, parseExcelFile).  `ref` is the identity of *)
(* the JavaScript object: the cells parseExcelFile creates carry their    *)
(* position in it, an object made by a spread copy ({...cell}) carries    *)
(* none, so that `a === b` is SameObject(a, b).  Indices are 1-based in   *)
(* the model (rowIndex 0 of the code is rowIndex 1 here).                  *)
(***************************************************************************)
SameObject(a, b) == a.ref /= Undefined /\ a.ref = b.ref

\* the cell parseExcelFile makes of a raw value (excel.ts:19-43)
ParseCell(raw, r, c) ==
  LET type == CASE raw.ty = "number" -> "n"
                [] raw.ty = "string" ->
                     IF MatchAt(raw.s, 1, <<"=">>) THEN "f"
                     ELSE IF isEmail(raw.s) THEN "h"
                     ELSE IF isUrl(raw.s) THEN "h"
                     ELSE "s"
                [] OTHER -> "s"
  IN  [v |-> raw, t |-> type, translated |-> Undefined, skip |-> Undefined,
       row |-> Undefined, col |-> Undefined, ref |-> Some(<<r, c>>)]

\* XLSX.utils.encode_col(i) for the first columns
encode_col(i) == UpperCase[i]

\* the Sheet parseExcelFile makes of a grid of raw values (excel.ts:13-59)
ParseSheet(sheetName, grid) ==
  LET rows == [r \in 1..Len(grid) |->
                 [c \in 1..Len(grid[r]) |-> ParseCell(grid[r][c], r, c)]]
      lens == {Len(rows[r]) : r \in 1..Len(rows)}
      maxCols == IF lens = {} THEN 0 ELSE CHOOSE m \in lens : \A k \in lens : k <= m
  IN  [name |-> sheetName, include |-> TRUE,
       columns |-> [i \in 1..maxCols |-> encode_col(i)],
       protectedColumns |-> <<>>, rows |-> rows, translatedRows |-> Undefined]

\* cell.v && (typeof cell.v === 'string' || typeof cell.v === 'number')
HasText(cell) == Truthy(cell.v) /\ IsStringOrNumber(cell.v)

\* a filter that forgets the skip flag
IsEligibleIgnoringSkip(cell) == HasText(cell)

\* ... && !cell.skip
IsEligible(cell) == HasText(cell) /\ cell.skip /= Some(TRUE)

\* calculateStats(sheets, glossary) (App.tsx:98-123)
RECURSIVE SumSeq(_)
SumSeq(s) == IF s = <<>> THEN 0 ELSE Head(s) + SumSeq(Tail(s))
\* the cells with text of the included sheets; with onlySkipped, those of
\* them shouldSkipCell holds for
CountCells(sheets, glossary, onlySkipped) ==
  SumSeq([k \in 1..Len(sheets) |->
    IF sheets[k].include
    THEN SumSeq([r \in 1..Len(sheets[k].rows) |->
           Cardinality({c \in 1..Len(sheets[k].rows[r]) :
                          /\ HasText(sheets[k].rows[r][c])
                          /\ (onlySkipped => shouldSkipCell(sheets[k].rows[r][c], glossary))})])
    ELSE 0])
calculateStats(sheets, glossary) ==
  [total |-> CountCells(sheets, glossary, FALSE),
   translated |-> 0,
   skipped |-> CountCells(sheets, glossary, TRUE),
   conflicts |-> 0]

\* exportToExcel: the worksheet data written for a sheet (excel.ts:78-80),
\* row.map(cell => cell.translated || cell.v)
EffectiveText(cell) ==
  IF cell.translated /= Undefined /\ cell.translated[1] /= <<>>
  THEN Str(cell.translated[1])
  ELSE cell.v
worksheetData(sheet) ==
  [r \in 1..Len(sheet.translatedRows[1]) |->
     [c \in 1..Len(sheet.translatedRows[1][r]) |->
        EffectiveText(sheet.translatedRows[1][r][c])]]

(***************************************************************************)
(* translateCells (utils/translation.ts:6-85), one batch at a time.       *)
(***************************************************************************)
\* Array.prototype.findIndex / find: hit[k] tells whether the predicate holds
\* of element k; the first index it holds of, 0 if none
FindIndex(hit) ==
  LET hits == {k \in 1..Len(hit) : hit[k]}
  IN  IF hits = {} THEN 0 ELSE CHOOSE k \in hits : \A j \in hits : k <= j

\* a lookup that compares the positions only
MatchesBatchCellByPosition(cell, batchCell) ==
  \/ SameObject(cell, batchCell)
  \/ (cell.row = batchCell.row /\ cell.col = batchCell.col)

\* the predicate of translatedCells.findIndex (translation.ts:49-52)
MatchesBatchCell(cell, batchCell) ==
  \/ SameObject(cell, batchCell)
  \/ (cell.v = batchCell.v /\ cell.row = batchCell.row /\ cell.col = batchCell.col)

\* cellsToTranslate.slice(i, i + batchSize)
BatchAt(cellsToTranslate, i) ==
  SubSeq(cellsToTranslate, i + 1,
         IF i + batchSize < Len(cellsToTranslate) THEN i + batchSize
         ELSE Len(cellsToTranslate))

\* translation && translation.trim() ? translation : batchCell.v.toString()
FinalTranslation(translation, batchCell) ==
  IF translation /= <<>> /\ Trim(translation) /= <<>> THEN translation
  ELSE toString(batchCell.v)

\* batch.forEach(...) from batchIndex on (translation.ts:42-65); acc holds
\* translatedCells and translatedCount
RECURSIVE ForEachBatchCell(_, _, _, _)
ForEachBatchCell(acc, batch, translations, batchIndex) ==
  IF batchIndex > Len(batch) THEN acc
  ELSE LET batchCell == batch[batchIndex]
           cellIndex == FindIndex([k \in 1..Len(acc.translatedCells) |->
                                     MatchesBatchCell(acc.translatedCells[k], batchCell)])
           next ==
             IF batchIndex <= Len(translations) /\ cellIndex /= 0
             THEN [translatedCells |->
                     [acc.translatedCells EXCEPT ![cellIndex] =
                        [batchCell EXCEPT
                           !.translated =
                              Some(FinalTranslation(translations[batchIndex], batchCell)),
                           !.ref = Undefined]],
                   translatedCount |-> acc.translatedCount + 2]
             ELSE acc
       IN  ForEachBatchCell(next, batch, translations, batchIndex + 1)

\* the locals of a translateCells call that has passed its early return
StartTranslateCells(cells) ==
  [cells |-> cells,
   cellsToTranslate |-> SelectSeq(cells, IsEligible),
   translatedCells |-> cells,
   translatedCount |-> 0,
   i |-> 0]

\* the try block after `await translateBatch` has answered (translation.ts:33-65)
BatchSucceeded(tc, response) ==
  LET batch == BatchAt(tc.cellsToTranslate, tc.i)
      texts == [k \in 1..Len(batch) |-> toString(batch[k].v)]
      translations == translateBatch(texts, response)
      acc == ForEachBatchCell([translatedCells |-> tc.translatedCells,
                               translatedCount |-> tc.translatedCount],
                              batch, translations, 1)
  IN  [tc EXCEPT !.translatedCells = acc.translatedCells,
                 !.translatedCount = acc.translatedCount]

\* Math.min((i + batchSize) / cellsToTranslate.length, 1) as a fraction
BatchProgress(tc) ==
  [num |-> IF tc.i + batchSize < Len(tc.cellsToTranslate) THEN tc.i + batchSize
           ELSE Len(tc.cellsToTranslate),
   den |-> Len(tc.cellsToTranslate)]

(***************************************************************************)
(* handleTranslate (App.tsx:125-284).                                      *)
(***************************************************************************)
\* a classification loop that leaves the skipped cells out of the row
ClassifyRowsDroppingSkipped(sheet, glossary) ==
  [rowIndex \in 1..Len(sheet.rows) |->
     LET kept == SelectSeq([colIndex \in 1..Len(sheet.rows[rowIndex]) |-> colIndex],
                   LAMBDA colIndex :
                     ~( \/ /\ colIndex <= Len(sheet.columns)
                           /\ sheet.columns[colIndex] \in Range(sheet.protectedColumns)
                        \/ shouldSkipCell(sheet.rows[rowIndex][colIndex], glossary) ))
     IN  [j \in 1..Len(kept) |-> sheet.rows[rowIndex][kept[j]]]]

\* a classification that leaves the columns' protection out of account
ClassifyRowsIgnoringProtected(sheet, glossary) ==
  [rowIndex \in 1..Len(sheet.rows) |->
     [colIndex \in 1..Len(sheet.rows[rowIndex]) |->
        LET cell == sheet.rows[rowIndex][colIndex]
        IN  IF shouldSkipCell(cell, glossary)
            THEN [cell EXCEPT !.skip = Some(TRUE), !.ref = Undefined]
            ELSE cell]]

\* the classification loop (App.tsx:149-174)
ClassifyRows(sheet, glossary) ==
  [rowIndex \in 1..Len(sheet.rows) |->
     [colIndex \in 1..Len(sheet.rows[rowIndex]) |->
        LET cell == sheet.rows[rowIndex][colIndex]
            protected == /\ colIndex <= Len(sheet.columns)
                         /\ sheet.columns[colIndex] \in Range(sheet.protectedColumns)
        IN  IF protected \/ shouldSkipCell(cell, glossary)
            THEN [cell EXCEPT !.skip = Some(TRUE), !.ref = Undefined]
            ELSE cell]]

\* the collecting loop (App.tsx:177-187): the eligible cells in row-major order
RECURSIVE CollectFrom(_, _, _)
CollectFrom(updatedRows, rowIndex, colIndex) ==
  IF rowIndex > Len(updatedRows) THEN <<>>
  ELSE IF colIndex > Len(updatedRows[rowIndex])
  THEN CollectFrom(updatedRows, rowIndex + 1, 1)
  ELSE (IF IsEligible(updatedRows[rowIndex][colIndex])
        THEN << [cell |-> updatedRows[rowIndex][colIndex],
                 rowIndex |-> rowIndex, colIndex |-> colIndex] >>
        ELSE <<>>)
       \o CollectFrom(updatedRows, rowIndex, colIndex + 1)
CollectCells(updatedRows) == CollectFrom(updatedRows, 1, 1)

\* cellsToTranslate.forEach(...) from item k on (App.tsx:222-250)
RECURSIVE PlaceFrom(_, _, _, _)
PlaceFrom(finalRows, cellsToTranslate, translatedCells, k) ==
  IF k > Len(cellsToTranslate) THEN finalRows
  ELSE LET item == cellsToTranslate[k]
           exact == FindIndex([j \in 1..Len(translatedCells) |->
                      /\ translatedCells[j].v = item.cell.v
                      /\ translatedCells[j].row = Some(item.rowIndex)
                      /\ translatedCells[j].col = Some(item.colIndex)])
           alternative == FindIndex([j \in 1..Len(translatedCells) |->
                            translatedCells[j].v = item.cell.v])
           rowExists == item.rowIndex \in 1..Len(finalRows)
           placed ==
             IF exact /= 0 /\ rowExists
             THEN [finalRows EXCEPT ![item.rowIndex][item.colIndex] = translatedCells[exact]]
             ELSE IF alternative /= 0 /\ rowExists
             THEN [finalRows EXCEPT ![item.rowIndex][item.colIndex] =
                     [translatedCells[alternative] EXCEPT
                        !.row = Some(item.rowIndex),
                        !.col = Some(item.colIndex),
                        !.ref = Undefined]]
             ELSE finalRows
       IN  PlaceFrom(placed, cellsToTranslate, translatedCells, k + 1)
PlaceTranslatedCells(updatedRows, cellsToTranslate, translatedCells) ==
  PlaceFrom(updatedRows, cellsToTranslate, translatedCells, 1)

\* updatedSheets.findIndex(s => s.name === sheet.name)
SheetIndexOf(updatedSheets, sheet) ==
  FindIndex([k \in 1..Len(updatedSheets) |-> updatedSheets[k].name = sheet.name])

\* A run of handleTranslate is held from one suspension point (an await) to
\* the next.  pc: "fetch" while translateBatch awaits the backend, "delay"
\* while translateCells awaits the 100 ms timer, "finish" when the loop over
\* the sheets has ended.  setProgress / setCurrentSheetIndex hold the last
\* value the code passed to those setters since the previous suspension.
\* requests, log and returned are history: the batches requested, how each
\* ended, and what each translateCells call was given and returned.
RECURSIVE EnterSheet(_)
RECURSIVE AfterTranslateCells(_, _)

\* the fetch of the batch at tc.i is issued (translation.ts:26-33, 95)
IssueRequest(h) ==
  [h EXCEPT !.pc = "fetch",
            !.requests = Append(@, [sheet |-> h.sheetsToTranslate[h.i].name,
                                    i |-> h.tc.i])]

\* a completion of translateCells that writes the translations into the
\* sheet's rows as well
AfterTranslateCellsWritingRows(h, translatedCells) ==
  LET sheet == h.sheetsToTranslate[h.i]
      sheetIndex == SheetIndexOf(h.updatedSheets, sheet)
      finalRows == PlaceTranslatedCells(h.updatedRows, h.cellsToTranslate, translatedCells)
  IN  EnterSheet([h EXCEPT
        !.updatedSheets[sheetIndex] = [sheet EXCEPT !.translatedRows = Some(finalRows),
                                                    !.rows = finalRows],
        !.returned = Append(@, [sheet |-> sheet.name, cells |-> h.tc.cells,
                                result |-> translatedCells]),
        !.i = @ + 1])

\* the rest of handleTranslate's loop body once translateCells has returned
\* translatedCells (App.tsx:206-255), then the next sheet
AfterTranslateCells(h, translatedCells) ==
  LET sheet == h.sheetsToTranslate[h.i]
      sheetIndex == SheetIndexOf(h.updatedSheets, sheet)
      finalRows == PlaceTranslatedCells(h.updatedRows, h.cellsToTranslate, translatedCells)
  IN  EnterSheet([h EXCEPT
        !.updatedSheets[sheetIndex] = [sheet EXCEPT !.translatedRows = Some(finalRows)],
        !.returned = Append(@, [sheet |-> sheet.name, cells |-> h.tc.cells,
                                result |-> translatedCells]),
        !.i = @ + 1])

\* the body of the loop over sheetsToTranslate, from sheet h.i on, up to the
\* first request (App.tsx:141-204, translation.ts:12-33)
EnterSheet(h) ==
  IF h.i > Len(h.sheetsToTranslate) THEN [h EXCEPT !.pc = "finish"]
  ELSE
    LET sheet == h.sheetsToTranslate[h.i]
        sheetIndex == SheetIndexOf(h.updatedSheets, sheet)
        updatedRows == ClassifyRows(sheet, h.state.glossary)
        cellsToTranslate == CollectCells(updatedRows)
        cellsForTranslation == [k \in 1..Len(cellsToTranslate) |-> cellsToTranslate[k].cell]
        h1 == [h EXCEPT !.setCurrentSheetIndex = Some(h.i - 1),
                        !.setProgress = Some([num |-> h.i - 1,
                                              den |-> Len(h.sheetsToTranslate)]),
                        !.updatedRows = updatedRows,
                        !.cellsToTranslate = cellsToTranslate]
    IN  IF Len(cellsToTranslate) > 0
        THEN LET tc == StartTranslateCells(cellsForTranslation)
             IN  IF Len(tc.cellsToTranslate) = 0
                 THEN AfterTranslateCells([h1 EXCEPT !.tc = tc], cellsForTranslation)
                 ELSE IssueRequest([h1 EXCEPT !.tc = tc])
        ELSE EnterSheet([h1 EXCEPT
               !.updatedSheets[sheetIndex] = [sheet EXCEPT !.translatedRows = Some(updatedRows)],
               !.i = @ + 1])

\* the for statement of translateCells steps to the next batch, or the call
\* returns translatedCells (translation.ts:26, 84)
NextBatch(h) ==
  LET i == h.tc.i + batchSize
  IN  IF i < Len(h.tc.cellsToTranslate)
      THEN IssueRequest([h EXCEPT !.tc.i = i])
      ELSE AfterTranslateCells(h, h.tc.translatedCells)

\* the run once the batch at tc.i has been answered with `response`: the
\* batch is stored, onProgress is called (translation.ts:70-73, App.tsx:200-203)
\* and the timer is started
BatchDone(h, response) ==
  LET tc == BatchSucceeded(h.tc, response)
      frac == BatchProgress(tc)
      batch == BatchAt(h.tc.cellsToTranslate, h.tc.i)
  IN  [h EXCEPT
         !.pc = "delay",
         !.tc = tc,
         !.setProgress = Some([num |-> (h.i - 1) * frac.den + frac.num,
                               den |-> frac.den * Len(h.sheetsToTranslate)]),
         !.log = Append(@, [sheet |-> h.sheetsToTranslate[h.i].name,
                            i |-> h.tc.i, ok |-> TRUE,
                            onProgress |-> Some(frac),
                            response |-> response,
                            translations |->
                              translateBatch([k \in 1..Len(batch) |-> toString(batch[k].v)],
                                             response)])]

\* a catch block that gives up the remaining batches
CatchBatchErrorAborts(h) ==
  AfterTranslateCells(
    [h EXCEPT
       !.log = Append(@, [sheet |-> h.sheetsToTranslate[h.i].name,
                          i |-> h.tc.i, ok |-> FALSE, onProgress |-> Undefined,
                          response |-> <<>>, translations |-> <<>>])],
    h.tc.translatedCells)

\* the catch block of translateCells (translation.ts:78-81): the error is
\* logged and the loop goes on with the next batch
CatchBatchError(h) ==
  NextBatch([h EXCEPT
    !.log = Append(@, [sheet |-> h.sheetsToTranslate[h.i].name,
                       i |-> h.tc.i, ok |-> FALSE, onProgress |-> Undefined,
                       response |-> <<>>, translations |-> <<>>])])

\* the locals of translateCells before any call
NoCall ==
  [cells |-> <<>>, cellsToTranslate |-> <<>>, translatedCells |-> <<>>,
   translatedCount |-> 0, i |-> 0]

\* handleTranslate from its first statement to its first await
\* (App.tsx:126-204); st is the state of the render the callback closes over
StartRun(st) ==
  LET sheetsToTranslate == SelectSeq(st.sheets, LAMBDA sheet : sheet.include)
  IN  EnterSheet(
        [pc |-> "start", state |-> st, sheetsToTranslate |-> sheetsToTranslate,
         updatedSheets |-> st.sheets, i |-> 1, updatedRows |-> <<>>,
         cellsToTranslate |-> <<>>, tc |-> NoCall,
         setProgress |-> Some([num |-> 0, den |-> 1]),
         setCurrentSheetIndex |-> Some(0),
         requests |-> <<>>, log |-> <<>>, returned |-> <<>>])

(***************************************************************************)
(* The inputs the model draws.                                             *)
(***************************************************************************)
\* the raw cell values of an uploaded sheet: a canonical header, a plain
\* word, a code (skipped by the classifier) and a boolean (never submitted)
RawValues ==
  { Str(<<"O", "p", "t", "i", "o", "n", "1">>), Str(<<"c", "a", "t">>),
    Str(<<"A", "B">>), Bool(TRUE) }

\* the rectangular grids of at most MaxCells cells and MaxCols columns
FileGrids ==
  UNION { [1..r -> [1..c -> RawValues]] :
            <<r, c>> \in {rc \in (1..MaxCells) \X (1..MaxCols) : rc[1] * rc[2] <= MaxCells} }

\* what parseExcelFile resolves with: the sheets of a one-sheet workbook
ParsedFiles == { << ParseSheet("Sheet1", grid) >> : grid \in FileGrids }

\* the lines a response body is made of: an ordinal and a formal word, a
\* plain word between blanks, an ordinal alone
LinePool ==
  { <<"1", ".", " ", "d_SA", "d_vU", "d_LA", "d_BHA">>,
    <<" ", "d_BA", "d_vI", "d_LA", "d_VIRAMA", "d_LA", "d_vII", " ">>,
    <<"2", ".">> }

\* the response bodies to a request of n texts
Responses(n) == UNION { [1..k -> LinePool] : k \in 0..(n + MaxExtraLines) }

Targets == {"hi-IN", "mr-IN"}

(***************************************************************************)
(* The state of the App component.                                         *)
(***************************************************************************)
VARIABLES
  state,              \* useState<WorkbookState>: fileName, sheets, glossary, settings, stats, isProcessing
  currentStep,        \* 'upload' | 'settings' | 'preview'
  progress,           \* the fraction last passed to setProgress
  currentSheetIndex,
  error,              \* string | null
  parsing,            \* TRUE while handleFileUpload awaits parseExcelFile
  uploads,            \* the number of files handed to handleFileUpload so far
  edits,              \* the number of changes made with the settings controls so far
  runs,               \* the invocations of handleTranslate, in order of start
  written,            \* the worksheet data of the last exportToExcel, per sheet
  probe               \* the calls made to the utility functions on their own, with their results

appVars == <<state, currentStep, progress, currentSheetIndex, error, parsing, uploads, edits, runs, written>>
vars == <<appVars, probe>>

\* App.tsx:18-35 (tone, domain and quality are read by no code of the pipeline
\* but the prompt text)
initialState ==
  [fileName |-> "", sheets |-> <<>>, glossary |-> <<>>,
   settings |-> [target |-> "hi-IN", tone |-> "neutral", domain |-> "admin",
                 quality |-> "balanced"],
   stats |-> [total |-> 0, translated |-> 0, skipped |-> 0, conflicts |-> 0],
   isProcessing |-> FALSE]

Zero == [num |-> 0, den |-> 1]
One == [num |-> 1, den |-> 1]

\* the component before any event
Mounted ==
  /\ state = initialState
  /\ currentStep = "upload"
  /\ progress = Zero
  /\ currentSheetIndex = 0
  /\ error = Undefined
  /\ parsing = FALSE
  /\ uploads = 0
  /\ edits = 0
  /\ runs = <<>>
  /\ written = <<>>

Init ==
  /\ Mounted
  /\ probe = <<>>

\* the ProgressModal is open while state.isProcessing and covers the page
ModalOpen == state.isProcessing

(***************************************************************************)
(* The handlers.                                                           *)
(***************************************************************************)
\* handleFileUpload up to `await parseExcelFile(file)` (App.tsx:45-48)
HandleFileUpload ==
  /\ currentStep = "upload" /\ ~ModalOpen /\ ~parsing
  /\ uploads < MaxUploads
  /\ state' = [state EXCEPT !.isProcessing = TRUE]
  /\ parsing' = TRUE
  /\ uploads' = uploads + 1
  /\ UNCHANGED <<currentStep, progress, currentSheetIndex, error, edits, runs, written, probe>>

\* parseExcelFile resolves (App.tsx:48-61); the callback closes over the
\* glossary of the render that started it
FileParsed ==
  /\ parsing
  /\ \E sheets \in ParsedFiles :
       state' = [state EXCEPT !.fileName = "book.xlsx",
                              !.sheets = sheets,
                              !.stats = calculateStats(sheets, initialState.glossary),
                              !.isProcessing = FALSE]
  /\ currentStep' = "settings"
  /\ parsing' = FALSE
  /\ UNCHANGED <<progress, currentSheetIndex, error, uploads, edits, runs, written, probe>>

\* parseExcelFile rejects (App.tsx:62-65)
FileRejected ==
  /\ parsing
  /\ error' = Some("Failed to parse Excel file")
  /\ state' = [state EXCEPT !.isProcessing = FALSE]
  /\ parsing' = FALSE
  /\ UNCHANGED <<currentStep, progress, currentSheetIndex, uploads, edits, runs, written, probe>>

\* the controls of the settings step are rendered (App.tsx:369)
SettingsShown == currentStep = "settings" /\ Len(state.sheets) > 0 /\ ~ModalOpen

\* handleSettingsChange (App.tsx:68-70), from the target language select
\* (TranslationSettings calls it when the selection changes)
HandleSettingsChange ==
  /\ SettingsShown /\ edits < MaxEdits
  /\ edits' = edits + 1
  /\ \E target \in Targets \ {state.settings.target} :
       state' = [state EXCEPT !.settings.target = target]
  /\ UNCHANGED <<currentStep, progress, currentSheetIndex, error, parsing, uploads, runs, written, probe>>

\* handleSheetToggle (App.tsx:80-87), from the check box of a sheet
HandleSheetToggle ==
  /\ SettingsShown /\ edits < MaxEdits
  /\ edits' = edits + 1
  /\ \E k \in 1..Len(state.sheets) :
       state' = [state EXCEPT !.sheets[k].include = ~state.sheets[k].include]
  /\ UNCHANGED <<currentStep, progress, currentSheetIndex, error, parsing, uploads, runs, written, probe>>

\* handleProtectedColumnsChange (App.tsx:89-96): the first column of a sheet
\* is protected or released
HandleProtectedColumnsChange ==
  /\ SettingsShown /\ edits < MaxEdits
  /\ edits' = edits + 1
  /\ \E k \in 1..Len(state.sheets) :
       \E columns \in {<<>>, <<state.sheets[k].columns[1]>>} \ {state.sheets[k].protectedColumns} :
         state' = [state EXCEPT !.sheets[k].protectedColumns = columns]
  /\ UNCHANGED <<currentStep, progress, currentSheetIndex, error, parsing, uploads, runs, written, probe>>

\* the statistics handleTranslate stores when it ends (App.tsx:266-268)
FinalStats(h) ==
  LET finalStats == calculateStats(h.updatedSheets, h.state.glossary)
  IN  [finalStats EXCEPT !.translated = finalStats.total - finalStats.skipped]

\* the setters a run has called since its last suspension take effect; a
\* run whose loop has ended also commits its result (App.tsx:266-278)
Commit(h, st) ==
  /\ state' = IF h.pc = "finish"
              THEN [st EXCEPT !.sheets = h.updatedSheets,
                              !.stats = FinalStats(h),
                              !.isProcessing = FALSE]
              ELSE st
  /\ progress' = IF h.pc = "finish" THEN One
                 ELSE IF h.setProgress /= Undefined THEN h.setProgress[1]
                 ELSE progress
  /\ currentSheetIndex' = IF h.setCurrentSheetIndex /= Undefined
                          THEN h.setCurrentSheetIndex[1]
                          ELSE currentSheetIndex
  /\ currentStep' = IF h.pc = "finish" THEN "preview" ELSE currentStep

\* the run as it is kept until its next step
Suspended(h) ==
  [h EXCEPT !.pc = IF h.pc = "finish" THEN "done" ELSE h.pc,
            !.setProgress = Undefined,
            !.setCurrentSheetIndex = Undefined]

\* handleTranslate, from the click on Translate to its first await
\* (App.tsx:125-204); the button is disabled while processing or when no
\* sheet is included (App.tsx:396)
HandleTranslate ==
  /\ SettingsShown
  /\ \/ Len(runs) < MaxRuns
     \/ /\ Len(runs) < MaxRuns + MaxReruns
        /\ SumSeq([k \in 1..Len(state.sheets) |->
                     SumSeq([j \in 1..Len(state.sheets[k].rows) |->
                               Len(state.sheets[k].rows[j])])]) <= MaxRerunCells
  /\ \E k \in 1..Len(state.sheets) : state.sheets[k].include
  /\ \E h \in {StartRun(state)} :
       /\ Commit(h, [state EXCEPT !.isProcessing = TRUE])
       /\ runs' = Append(runs, Suspended(h))
  /\ error' = Undefined
  /\ UNCHANGED <<parsing, uploads, edits, written, probe>>

\* fetch answers with a well-formed body; translateBatch parses it and
\* translateCells stores the batch, reports progress and starts the 100 ms
\* timer (translation.ts:33-76)
FetchOk(r) ==
  /\ runs[r].pc = "fetch"
  /\ \E response \in Responses(Len(BatchAt(runs[r].tc.cellsToTranslate, runs[r].tc.i))) :
       \E h \in {BatchDone(runs[r], response)} :
         /\ Commit(h, state)
         /\ runs' = [runs EXCEPT ![r] = Suspended(h)]
  /\ UNCHANGED <<error, parsing, uploads, edits, written, probe>>

\* fetch rejects, the status is not ok, or the body has no candidate text:
\* translateBatch throws, translateCells logs it and goes on with the next
\* batch at once (translation.ts:78-82, 116-124)
FetchFail(r) ==
  /\ runs[r].pc = "fetch"
  /\ \E h \in {CatchBatchError(runs[r])} :
       /\ Commit(h, state)
       /\ runs' = [runs EXCEPT ![r] = Suspended(h)]
  /\ UNCHANGED <<error, parsing, uploads, edits, written, probe>>

\* the 100 ms timer of translation.ts:76 fires
DelayElapsed(r) ==
  /\ runs[r].pc = "delay"
  /\ \E h \in {NextBatch(runs[r])} :
       /\ Commit(h, state)
       /\ runs' = [runs EXCEPT ![r] = Suspended(h)]
  /\ UNCHANGED <<error, parsing, uploads, edits, written, probe>>

\* handleCloseModal (App.tsx:312-315), the modal's Cancel and Close: it hides
\* the modal and tells the runs in progress nothing
HandleCloseModal ==
  /\ ModalOpen
  /\ state' = [state EXCEPT !.isProcessing = FALSE]
  /\ error' = Undefined
  /\ UNCHANGED <<currentStep, progress, currentSheetIndex, parsing, uploads, edits, runs, written, probe>>

\* App.tsx:317-318
currentSheet ==
  LET done == FindIndex([k \in 1..Len(state.sheets) |->
                /\ state.sheets[k].include
                /\ state.sheets[k].translatedRows /= Undefined])
      any == FindIndex([k \in 1..Len(state.sheets) |-> state.sheets[k].include])
  IN  IF done /= 0 THEN Some(state.sheets[done])
      ELSE IF any /= 0 THEN Some(state.sheets[any]) ELSE Undefined

\* handleDownload (App.tsx:286-301) and exportToExcel (excel.ts:72-92)
HandleDownload ==
  /\ currentStep = "preview" /\ currentSheet /= Undefined /\ ~ModalOpen
  /\ LET sheetsWithTranslations ==
           SelectSeq(state.sheets,
                     LAMBDA sheet : sheet.include /\ sheet.translatedRows /= Undefined)
     IN  IF Len(sheetsWithTranslations) = 0
         THEN /\ error' = Some("No translated sheets available for download")
              /\ UNCHANGED written
         ELSE /\ written' = [k \in 1..Len(sheetsWithTranslations) |->
                               [name |-> sheetsWithTranslations[k].name,
                                data |-> worksheetData(sheetsWithTranslations[k])]]
              /\ UNCHANGED error
  /\ UNCHANGED <<state, currentStep, progress, currentSheetIndex, parsing, uploads, edits, runs, probe>>

\* handleReset (App.tsx:303-310), the Start Over button of the header
HandleReset ==
  /\ state.fileName /= "" /\ ~ModalOpen
  /\ state' = initialState
  /\ currentStep' = "upload"
  /\ progress' = Zero
  /\ currentSheetIndex' = 0
  /\ error' = Undefined
  /\ UNCHANGED <<parsing, uploads, edits, runs, written, probe>>

Next ==
  \/ HandleFileUpload
  \/ FileParsed
  \/ FileRejected
  \/ HandleSettingsChange
  \/ HandleSheetToggle
  \/ HandleProtectedColumnsChange
  \/ HandleTranslate
  \/ \E r \in 1..Len(runs) : FetchOk(r)
  \/ \E r \in 1..Len(runs) : FetchFail(r)
  \/ \E r \in 1..Len(runs) : DelayElapsed(r)
  \/ HandleCloseModal
  \/ HandleDownload
  \/ HandleReset

Spec == Init /\ [][Next]_vars

(***************************************************************************)
(* The classification of one cell on its own: shouldSkipCell with a        *)
(* glossary (the App never fills state.glossary: handleGlossaryChange,     *)
(* App.tsx:72-78, is called by no component), followed by the loops of     *)
(* handleTranslate and the filter of translateCells.                       *)
(***************************************************************************)
\* Largest number of terms of a glossary.
MaxTerms == 2

\* cell values: a capitalised word, a code, a word followed by a blank, the
\* numbers 0 and 42, a boolean, an e-mail address, a URL and a formula
ClassifierValues ==
  { Str(<<"A", "c", "m", "e">>), Str(<<"A", "B">>), Str(<<"c", "a", "t", " ">>),
    Num(0), Num(42), Bool(TRUE),
    Str(<<"a", "@", "b", ".", "c", "o">>), Str(<<"x", ":", "y">>), Str(<<"=", "A">>) }

\* glossary terms (types.ts: GlossaryTerm)
ClassifierTerms ==
  { [term |-> <<"a", "c", "m", "e">>], [term |-> <<"a", "b">>], [term |-> <<"4">>],
    [term |-> <<"0">>], [term |-> <<"t", " ">>] }

Glossaries == UNION { [1..k -> ClassifierTerms] : k \in 0..MaxTerms }

\* a one-cell sheet, its column protected or not
ClassifierSheets ==
  { [ParseSheet("Sheet1", << <<raw>> >>) EXCEPT !.protectedColumns = protectedColumns] :
      raw \in ClassifierValues, protectedColumns \in { <<>>, <<"A">> } }

InitClassifier ==
  /\ Mounted
  /\ probe \in { [sheet |-> sheet, glossary |-> glossary, classified |-> FALSE,
                  updatedRows |-> <<>>, sent |-> <<>>] :
                 sheet \in ClassifierSheets, glossary \in Glossaries }

\* the classification loop and the collecting loop of handleTranslate
\* (App.tsx:149-187) and the filter of translateCells (translation.ts:12-14)
Classify ==
  /\ ~probe.classified
  /\ LET updatedRows == ClassifyRows(probe.sheet, probe.glossary)
         cellsToTranslate == CollectCells(updatedRows)
         tc == StartTranslateCells([k \in 1..Len(cellsToTranslate) |-> cellsToTranslate[k].cell])
     IN  probe' = [probe EXCEPT !.classified = TRUE,
                                !.updatedRows = updatedRows,
                                !.sent = tc.cellsToTranslate]
  /\ UNCHANGED appVars

NextClassifier == Classify

SpecClassifier == InitClassifier /\ [][NextClassifier]_vars

(***************************************************************************)
(* The quality checker (the qualityChecker of src/unnamed/part_003, which  *)
(* takes the language).  An issue is kept as its type, its severity and    *)
(* the word or rule its message names.                                     *)
(***************************************************************************)
\* the keys of HINDI_FORMAL_WORDS_MAP and of MARATHI_FORMAL_WORDS_MAP, in the
\* order of Object.entries
HINDI_FORMAL_WORDS_MAP ==
  << <<"d_AU", "d_PA", "d_CA", "d_vAA", "d_RA", "d_vI", "d_KA">>,
     <<"d_PA", "d_VIRAMA", "d_RA", "d_SA", "d_VIRAMA", "d_TA", "d_vAA", "d_VA">>,
     <<"d_SA", "d_VIRAMA", "d_PA", "d_SSA", "d_VIRAMA", "d_TTA", "d_TA", "d_vAA">>,
     <<"d_PA", "d_VIRAMA", "d_RA", "d_SHA", "d_vI", "d_KA", "d_VIRAMA", "d_SSA", "d_NNA">>,
     <<"d_PA", "d_VIRAMA", "d_RA", "d_KA", "d_VIRAMA", "d_RA", "d_vI", "d_YA", "d_vAA">>,
     <<"d_SA", "d_ANUSVARA", "d_DA", "d_RA", "d_VIRAMA", "d_BHA">>,
     <<"d_VA", "d_vI", "d_SHA", "d_VIRAMA", "d_LA", "d_vE", "d_SSA", "d_NNA">>,
     <<"d_SA", "d_vU", "d_LA", "d_BHA">>,
     <<"d_SA", "d_VIRAMA", "d_THA", "d_vAA", "d_PA", "d_vI", "d_TA">>,
     <<"d_SA", "d_HA", "d_BHA", "d_vAA", "d_GA", "d_vI", "d_TA", "d_vAA">>,
     <<"d_KA", "d_vAA", "d_RA", "d_VIRAMA", "d_YA", "d_vAA", "d_NA", "d_VIRAMA", "d_VA", "d_YA", "d_NA">>,
     <<"d_PA", "d_RA", "d_vI", "d_NNA", "d_vAA", "d_MA">>,
     <<"d_U", "d_DA", "d_VIRAMA", "d_DA", "d_vE", "d_SHA", "d_VIRAMA", "d_YA">>,
     <<"d_PA", "d_VIRAMA", "d_RA", "d_vAA", "d_PA", "d_VIRAMA", "d_TA", "d_vI">>,
     <<"d_VA", "d_VIRAMA", "d_YA", "d_VA", "d_SA", "d_VIRAMA", "d_THA", "d_vAA">>,
     <<"d_PA", "d_VIRAMA", "d_RA", "d_BA", "d_ANUSVARA", "d_DHA", "d_NA">>,
     <<"d_VA", "d_vI", "d_KA", "d_vAA", "d_SA">>,
     <<"d_SA", "d_vU", "d_DHA", "d_vAA", "d_RA">>,
     <<"d_NA", "d_vI", "d_RA", "d_vII", "d_KA", "d_VIRAMA", "d_SSA", "d_NNA">>,
     <<"d_PA", "d_RA", "d_vII", "d_KA", "d_VIRAMA", "d_SSA", "d_NNA">> >>
MARATHI_FORMAL_WORDS_MAP ==
  << <<"d_AU", "d_PA", "d_CA", "d_vAA", "d_RA", "d_vI", "d_KA">>,
     <<"d_PA", "d_VIRAMA", "d_RA", "d_SA", "d_VIRAMA", "d_TA", "d_vAA", "d_VA">>,
     <<"d_SA", "d_VIRAMA", "d_PA", "d_SSA", "d_VIRAMA", "d_TTA", "d_TA", "d_vAA">>,
     <<"d_PA", "d_VIRAMA", "d_RA", "d_SHA", "d_vI", "d_KA", "d_VIRAMA", "d_SSA", "d_NNA">>,
     <<"d_PA", "d_VIRAMA", "d_RA", "d_KA", "d_VIRAMA", "d_RA", "d_vI", "d_YA", "d_vAA">>,
     <<"d_SA", "d_ANUSVARA", "d_DA", "d_RA", "d_VIRAMA", "d_BHA">>,
     <<"d_VA", "d_vI", "d_SHA", "d_VIRAMA", "d_LA", "d_vE", "d_SSA", "d_NNA">>,
     <<"d_SA", "d_vU", "d_LA", "d_BHA">>,
     <<"d_SA", "d_VIRAMA", "d_THA", "d_vAA", "d_PA", "d_vI", "d_TA">>,
     <<"d_SA", "d_HA", "d_BHA", "d_vAA", "d_GA", "d_vI", "d_TA", "d_vAA">> >>
\* the keys of LITERAL_TRANSLATIONS
LITERAL_TRANSLATIONS ==
  << <<"d_SA", "d_MA", "d_YA", " ", "d_PA", "d_VIRAMA", "d_RA", "d_BA", "d_ANUSVARA", "d_DHA", "d_NA">>,
     <<"d_KA", "d_vAU", "d_SHA", "d_LA", " ", "d_VA", "d_vI", "d_KA", "d_vAA", "d_SA">>,
     <<"d_JA", "d_VIRAMA", "d_NYA", "d_vAA", "d_NA", " ", "d_PA", "d_VIRAMA", "d_RA", "d_BA", "d_ANUSVARA", "d_DHA", "d_NA">>,
     <<"d_GA", "d_vU", "d_NNA", "d_VA", "d_TA", "d_VIRAMA", "d_TA", "d_vAA", " ", "d_AA", "d_SHA", "d_VIRAMA", "d_VA", "d_vAA", "d_SA", "d_NA">>,
     <<"d_PA", "d_VIRAMA", "d_RA", "d_DA", "d_RA", "d_VIRAMA", "d_SHA", "d_NA", " ", "d_MA", "d_vUU", "d_LA", "d_VIRAMA", "d_YA", "d_vAA", "d_ANUSVARA", "d_KA", "d_NA">> >>
\* GRAMMAR_PATTERNS.mixedPronouns: the alternatives of /(..|..)/g
mixedPronouns ==
  << <<"d_AA", "d_PA">>,
     <<"d_TA", "d_vU", "d_MA">> >>
\* GRAMMAR_PATTERNS.genderMismatch: the alternatives of its two groups
genderMismatchNouns ==
  << <<"d_LA", "d_DDA", "d_NUKTA", "d_KA", "d_vAA">>,
     <<"d_LA", "d_DDA", "d_NUKTA", "d_KA", "d_vII">>,
     <<"d_CHA", "d_vAA", "d_TA", "d_VIRAMA", "d_RA">>,
     <<"d_CHA", "d_vAA", "d_TA", "d_VIRAMA", "d_RA", "d_vAA">> >>
genderMismatchVerbs ==
  << <<"d_KA", "d_RA", "d_TA", "d_vAA">>,
     <<"d_KA", "d_RA", "d_TA", "d_vII">> >>
\* the phrases checkTone looks for
formalIndicators ==
  << <<"d_KA", "d_vVOCALIC R", "d_PA", "d_YA", "d_vAA", " ", "d_DHA", "d_VIRAMA", "d_YA", "d_vAA", "d_NA", " ", "d_DA", "d_vE", "d_ANUSVARA">>,
     <<"d_SA", "d_vAA", "d_VA", "d_DHA", "d_vAA", "d_NA", "d_vII", "d_PA", "d_vUU", "d_RA", "d_VIRAMA", "d_VA", "d_KA">>,
     <<"d_A", "d_TA", "d_VIRAMA", "d_YA", "d_ANUSVARA", "d_TA", " ", "d_MA", "d_HA", "d_TA", "d_VIRAMA", "d_VA", "d_PA", "d_vUU", "d_RA", "d_VIRAMA", "d_NNA">>,
     <<"d_NA", "d_vI", "d_MA", "d_VIRAMA", "d_NA", "d_LA", "d_vI", "d_KHA", "d_vI", "d_TA", " ", "d_BA", "d_vI", "d_ANUSVARA", "d_DA", "d_vU", "d_O", "d_ANUSVARA", " ", "d_PA", "d_RA", " ", "d_DHA", "d_VIRAMA", "d_YA", "d_vAA", "d_NA", " ", "d_DA", "d_vE", "d_ANUSVARA">> >>
\* the table of checkStructure: English header, Hindi label
columnMappings ==
  << << <<"Q", "u", "e", "s", "t", "i", "o", "n">>,
        <<"d_PA", "d_VIRAMA", "d_RA", "d_SHA", "d_VIRAMA", "d_NA">> >>,
     << <<"O", "p", "t", "i", "o", "n", "1">>,
        <<"d_VA", "d_vI", "d_KA", "d_LA", "d_VIRAMA", "d_PA", " ", "1">> >>,
     << <<"O", "p", "t", "i", "o", "n", "2">>,
        <<"d_VA", "d_vI", "d_KA", "d_LA", "d_VIRAMA", "d_PA", " ", "2">> >>,
     << <<"O", "p", "t", "i", "o", "n", "3">>,
        <<"d_VA", "d_vI", "d_KA", "d_LA", "d_VIRAMA", "d_PA", " ", "3">> >>,
     << <<"O", "p", "t", "i", "o", "n", "4">>,
        <<"d_VA", "d_vI", "d_KA", "d_LA", "d_VIRAMA", "d_PA", " ", "4">> >>,
     << <<"C", "o", "r", "r", "e", "c", "t", " ", "a", "n", "s">>,
        <<"d_SA", "d_HA", "d_vII", " ", "d_U", "d_TA", "d_VIRAMA", "d_TA", "d_RA">> >>,
     << <<"A", "n", "s", "w", "e", "r">>,
        <<"d_U", "d_TA", "d_VIRAMA", "d_TA", "d_RA">> >>,
     << <<"E", "x", "p", "l", "a", "n", "a", "t", "i", "o", "n">>,
        <<"d_VA", "d_VIRAMA", "d_YA", "d_vAA", "d_KHA", "d_VIRAMA", "d_YA", "d_vAA">> >> >>

QualityIssue(type, severity, about) ==
  [type |-> type, severity |-> severity, about |-> about]

\* /^(Question|Option\d+|Correct ans|Answer|Explanation)$/i.test(text)
IsColumnHeaderText(text) ==
  LET t == ToLowerCase(text)
      option == <<"o", "p", "t", "i", "o", "n">>
  IN  \/ t \in { <<"q", "u", "e", "s", "t", "i", "o", "n">>,
                 <<"c", "o", "r", "r", "e", "c", "t", " ", "a", "n", "s">>,
                 <<"a", "n", "s", "w", "e", "r">>,
                 <<"e", "x", "p", "l", "a", "n", "a", "t", "i", "o", "n">> }
      \/ /\ MatchAt(t, 1, option)
         /\ Len(t) > Len(option)
         /\ \A i \in (Len(option) + 1)..Len(t) : t[i] \in AsciiDigits

\* checkFormalWords(text, language)
checkFormalWords(text, language) ==
  LET formalWordsMap == IF language = "hi-IN" THEN HINDI_FORMAL_WORDS_MAP
                        ELSE MARATHI_FORMAL_WORDS_MAP
      found == SelectSeq(formalWordsMap, LAMBDA formalWord : Includes(text, formalWord))
      severity == IF IsColumnHeaderText(text) THEN "low" ELSE "medium"
  IN  [k \in 1..Len(found) |-> QualityIssue("formal_word", severity, found[k])]

\* checkLiteralTranslations(text)
checkLiteralTranslations(text) ==
  LET found == SelectSeq(LITERAL_TRANSLATIONS, LAMBDA literal : Includes(text, literal))
  IN  [k \in 1..Len(found) |-> QualityIssue("literal_translation", "high", found[k])]

\* text.match(GRAMMAR_PATTERNS.mixedPronouns): the matches of a global
\* pattern of plain alternatives from position i on, leftmost first;
\* String.prototype.match starts at 0 and leaves lastIndex at 0
RECURSIVE MatchAll(_, _, _)
MatchAll(text, i, alternatives) ==
  IF i > Len(text) THEN <<>>
  ELSE LET here == {k \in 1..Len(alternatives) : MatchAt(text, i, alternatives[k])}
       IN  IF here = {} THEN MatchAll(text, i + 1, alternatives)
           ELSE LET k == CHOOSE a \in here : \A b \in here : a <= b
                IN  <<alternatives[k]>> \o MatchAll(text, i + Len(alternatives[k]), alternatives)

\* the last position of the match of /(noun).*(verb)/ that starts at
\* position s, 0 when there is none: the first noun that can be completed,
\* then the verb that starts last on the same line (.* is greedy)
GenderMatchEnd(text, s) ==
  LET ends(noun) ==
        {e \in s..Len(text) :
           \E k \in 1..Len(genderMismatchVerbs) :
             LET p == e - Len(genderMismatchVerbs[k]) + 1
             IN  /\ p >= s + Len(noun)
                 /\ MatchAt(text, p, genderMismatchVerbs[k])
                 /\ \A q \in (s + Len(noun))..(p - 1) : text[q] /= "\n"}
      nouns == {k \in 1..Len(genderMismatchNouns) :
                  /\ MatchAt(text, s, genderMismatchNouns[k])
                  /\ ends(genderMismatchNouns[k]) /= {}}
  IN  IF nouns = {} THEN 0
      ELSE LET first == CHOOSE a \in nouns : \A b \in nouns : a <= b
               es == ends(genderMismatchNouns[first])
           IN  CHOOSE e \in es : \A f \in es : e >= f

\* GRAMMAR_PATTERNS.genderMismatch.test(text): the pattern has the g flag, so
\* the search starts at its lastIndex, a match leaves lastIndex behind its
\* end and a failure sets it to 0
genderMismatchTest(text, lastIndex) ==
  LET starts == {s \in (lastIndex + 1)..Len(text) : GenderMatchEnd(text, s) > 0}
  IN  IF starts = {} THEN [found |-> FALSE, lastIndex |-> 0]
      ELSE [found |-> TRUE,
            lastIndex |-> GenderMatchEnd(text, CHOOSE s \in starts : \A u \in starts : s <= u)]

\* checkGrammar(text), with the lastIndex of GRAMMAR_PATTERNS.genderMismatch
\* before the call; the result holds the issues and the lastIndex after it
checkGrammar(text, lastIndex) ==
  LET pronounMatches == MatchAll(text, 1, mixedPronouns)
      mixed == IF Len(pronounMatches) > 1 /\ Cardinality(Range(pronounMatches)) > 1
               THEN <<QualityIssue("grammar", "medium", "mixedPronouns")>>
               ELSE <<>>
      gender == genderMismatchTest(text, lastIndex)
  IN  [issues |-> mixed \o (IF gender.found
                            THEN <<QualityIssue("grammar", "high", "genderMismatch")>>
                            ELSE <<>>),
       lastIndex |-> gender.lastIndex]

\* checkTone(text, context)
checkTone(text, context) ==
  IF /\ context = "technical"
     /\ \E k \in 1..Len(formalIndicators) : Includes(text, formalIndicators[k])
  THEN <<QualityIssue("tone", "low", "formal")>>
  ELSE <<>>

\* /^\d+\.\s*/.test(text)
serialNumberPattern(text) ==
  LET d == SkipClass(text, 1, AsciiDigits)
  IN  d > 1 /\ d <= Len(text) /\ text[d] = "."

\* checkStructure(originalText, translatedText)
checkStructure(originalText, translatedText) ==
  LET serial == IF serialNumberPattern(originalText) /\ ~serialNumberPattern(translatedText)
                THEN <<QualityIssue("structure", "low", "serialNumber")>>
                ELSE <<>>
      cleanTranslatedText == Trim(StripPrefix(translatedText, HindiDigits \cup AsciiDigits))
      wrong == SelectSeq(columnMappings,
                 LAMBDA m : Trim(originalText) = m[1] /\ cleanTranslatedText /= m[2])
  IN  serial \o [k \in 1..Len(wrong) |-> QualityIssue("structure", "high", wrong[k][1])]

\* a score that rounds towards zero instead of to the nearest integer
calculateQualityScoreRoundingDown(issues, textLength) ==
  IF Len(issues) = 0 THEN 100
  ELSE
    LET totalPenalty ==
          SumSeq([k \in 1..Len(issues) |->
                    CASE issues[k].severity = "high" -> 15
                      [] issues[k].severity = "medium" -> 8
                      [] OTHER -> 3])
        m == IF textLength < 200 THEN textLength ELSE 200
    IN  IF m = 0 \/ m < totalPenalty THEN 0
        ELSE (100 * m - 100 * totalPenalty) \div m

\* a score that takes a low issue for a merit
calculateQualityScoreRewardingLow(issues, textLength) ==
  IF Len(issues) = 0 THEN 100
  ELSE
    LET totalPenalty ==
          SumSeq([k \in 1..Len(issues) |->
                    CASE issues[k].severity = "high" -> 15
                      [] issues[k].severity = "medium" -> 8
                      [] OTHER -> -3])
        m == IF textLength < 200 THEN textLength ELSE 200
        twice == 200 * m - 200 * totalPenalty + m
    IN  IF m = 0 \/ twice < 0 THEN 0 ELSE twice \div (2 * m)

\* calculateQualityScore(issues, textLength).  With m = min(textLength, 200)
\* the length factor is m / 100 and the score is
\* max(0, round(100 - 100 * totalPenalty / m)); Math.round takes a half up,
\* so the rounded value is floor((200 m - 200 totalPenalty + m) / (2 m)).  For
\* textLength = 0 the penalty is divided by 0: 100 - Infinity, and Math.max
\* gives 0.
calculateQualityScore(issues, textLength) ==
  IF Len(issues) = 0 THEN 100
  ELSE
    LET totalPenalty ==
          SumSeq([k \in 1..Len(issues) |->
                    CASE issues[k].severity = "high" -> 15
                      [] issues[k].severity = "medium" -> 8
                      [] issues[k].severity = "low" -> 3
                      [] OTHER -> 0])
        m == IF textLength < 200 THEN textLength ELSE 200
        twice == 200 * m - 200 * totalPenalty + m
    IN  IF m = 0 \/ twice < 0 THEN 0 ELSE twice \div (2 * m)

\* checkTranslationQuality(originalText, translatedText, context, language),
\* with the lastIndex of GRAMMAR_PATTERNS.genderMismatch before the call
checkTranslationQuality(originalText, translatedText, context, language, lastIndex) ==
  LET formalWordIssues == checkFormalWords(translatedText, language)
      literalIssues == checkLiteralTranslations(translatedText)
      grammar == checkGrammar(translatedText, lastIndex)
      toneIssues == checkTone(translatedText, context)
      structureIssues == checkStructure(originalText, translatedText)
      issues == formalWordIssues \o literalIssues \o grammar.issues \o toneIssues
                  \o structureIssues
  IN  [report |->
         [issues |-> issues,
          score |-> calculateQualityScore(issues, Len(originalText)),
          summary |->
            [totalIssues |-> Len(issues),
             criticalIssues |-> Len(SelectSeq(issues, LAMBDA issue : issue.severity = "high")),
             formalWordIssues |-> Len(formalWordIssues),
             literalTranslationIssues |-> Len(literalIssues),
             grammarIssues |-> Len(grammar.issues)]],
       lastIndex |-> grammar.lastIndex]

\* Number of calls of checkTranslationQuality.
MaxCalls == 2

\* the texts the checker is called with: a noun the pattern of gender
\* agreement knows with a verb, two pronouns, a literal translation that
\* holds a formal word of the Hindi table, a formal phrase, a header label
QualityTranslations ==
  { <<"d_CHA", "d_vAA", "d_TA", "d_VIRAMA", "d_RA", " ", "d_KA", "d_RA", "d_TA", "d_vAA">>,
    <<"d_AA", "d_PA", " ", "d_TA", "d_vU", "d_MA">>,
    <<"d_SA", "d_MA", "d_YA", " ", "d_PA", "d_VIRAMA", "d_RA", "d_BA", "d_ANUSVARA", "d_DHA", "d_NA">>,
    <<"d_SA", "d_vAA", "d_VA", "d_DHA", "d_vAA", "d_NA", "d_vII", "d_PA", "d_vUU", "d_RA", "d_VIRAMA", "d_VA", "d_KA">>,
    <<"d_PA", "d_VIRAMA", "d_RA", "d_SHA", "d_VIRAMA", "d_NA">> }
QualityOriginals ==
  { <<>>, <<"Q", "u", "e", "s", "t", "i", "o", "n">>, <<"1", ".", " ", "c", "a", "t">> }
QualityContexts == {"marketing", "technical"}

InitQuality ==
  /\ Mounted
  /\ probe = [lastIndex |-> 0, calls |-> <<>>]

\* one call of checkTranslationQuality
CheckTranslationQuality ==
  /\ Len(probe.calls) < MaxCalls
  /\ \E originalText \in QualityOriginals, translatedText \in QualityTranslations,
        context \in QualityContexts, language \in Targets :
       LET out == checkTranslationQuality(originalText, translatedText, context, language,
                                          probe.lastIndex)
       IN  probe' = [lastIndex |-> out.lastIndex,
                     calls |-> Append(probe.calls,
                                 [originalText |-> originalText,
                                  translatedText |-> translatedText,
                                  context |-> context, language |-> language,
                                  report |-> out.report])]
  /\ UNCHANGED appVars

NextQuality == CheckTranslationQuality

SpecQuality == InitQuality /\ [][NextQuality]_vars

\* Largest number of issues handed to calculateQualityScore.
MaxIssues == 4

\* lengths of the original text: none, a header, half the length at which
\* the penalty is taken as it is, that length, and lengths around the cap
ScoreLengths == {0, 8, 50, 100, 199, 200, 250}
Severities == {"low", "medium", "high"}

InitScore ==
  /\ Mounted
  /\ probe \in { [textLength |-> textLength, issues |-> <<>>,
                  scores |-> <<calculateQualityScore(<<>>, textLength)>>] :
                 textLength \in ScoreLengths }

\* calculateQualityScore is called with one issue more
AddIssue ==
  /\ Len(probe.issues) < MaxIssues
  /\ \E severity \in Severities :
       LET issues == Append(probe.issues, QualityIssue("grammar", severity, "any"))
       IN  probe' = [probe EXCEPT
                       !.issues = issues,
                       !.scores = Append(@, calculateQualityScore(issues, probe.textLength))]
  /\ UNCHANGED appVars

NextScore == AddIssue

SpecScore == InitScore /\ [][NextScore]_vars

(***************************************************************************)
(* The vocabulary of the properties.  A call is a translateCells call a   *)
(* run has returned from: <<r, n>> is the n-th one of run r.               *)
(***************************************************************************)
Calls == UNION { {<<r, n>> : n \in 1..Len(runs[r].returned)} : r \in 1..Len(runs) }

\* the sheet called `name` as run r read it, and as run r left it
ClosureSheet(r, name) ==
  runs[r].state.sheets[SheetIndexOf(runs[r].state.sheets, [name |-> name])]
ResultSheet(r, name) ==
  runs[r].updatedSheets[SheetIndexOf(runs[r].updatedSheets, [name |-> name])]

\* the cells run r submitted for the sheet, each with its rowIndex and colIndex
Submitted(r, name) ==
  CollectCells(ClassifyRows(ClosureSheet(r, name), runs[r].state.glossary))

\* the cell of translatedRows at the place of a submitted item
PlacedCell(r, name, item) ==
  ResultSheet(r, name).translatedRows[1][item.rowIndex][item.colIndex]

\* the number of batches n cells are cut into, the offset of the batch that
\* holds the k-th submitted cell, and the position of that cell in its batch
NBatches(n) == (n + batchSize - 1) \div batchSize
BatchOffset(k) == ((k - 1) \div batchSize) * batchSize
PositionInBatch(k) == ((k - 1) % batchSize) + 1

\* how the batch at offset i of the sheet ended in run r
OutcomeAt(r, name, i) ==
  LET hits == {j \in 1..Len(runs[r].log) :
                 runs[r].log[j].sheet = name /\ runs[r].log[j].i = i}
  IN  runs[r].log[CHOOSE j \in hits : TRUE]
Outcome(r, name, k) == OutcomeAt(r, name, BatchOffset(k))

\* the text the backend's answer gives the k-th submitted cell: the entry of
\* translateBatch's result at the cell's position, or the cell's own text
Produced(r, name, k, cell) ==
  FinalTranslation(Outcome(r, name, k).translations[PositionInBatch(k)], cell)

\* the requests and the outcomes of run r for one sheet, in order
RequestsFor(r, name) == SelectSeq(runs[r].requests, LAMBDA q : q.sheet = name)
OutcomesFor(r, name) == SelectSeq(runs[r].log, LAMBDA o : o.sheet = name)

\* the text of a cell, and whether it is one of the canonical headers
TextOf(cell) == toString(cell.v)
IsHeader(cell) == Trim(TextOf(cell)) \in Range(columnHeaders)

\* a response line once trimmed and rid of its ordinal
CleanLine(line) == StripPrefix(Trim(line), AsciiDigits)

\* no two of the cells have the same value
DistinctValues(cells) ==
  \A j, k \in 1..Len(cells) : j /= k => cells[j].v /= cells[k].v

(***************************************************************************)
(* The properties.                                                         *)
(***************************************************************************)
\* C1: once handleTranslate has finished a sheet, every submitted cell whose
\* batch was answered has, at its own (rowIndex, colIndex) of translatedRows,
\* the translation the backend produced for that very cell, also when other
\* submitted cells hold the same value.  The code places by value, so TLC
\* finds this violated.
TranslationPlacedAtOwnPosition ==
  \A c \in Calls :
    LET r == c[1]
        name == runs[r].returned[c[2]].sheet
        items == Submitted(r, name)
    IN  \A k \in 1..Len(items) :
          Outcome(r, name, k).ok =>
            PlacedCell(r, name, items[k]).translated
              = Some(Produced(r, name, k, items[k].cell))

\* C2: element k of the array translateCells returns carries as .translated
\* the text got from the response at that cell's position in its batch (the
\* cell's own text when that text is empty), also when other cells of the
\* call hold the same value.  The code looks the cell up by value, so TLC
\* finds this violated.
ResultCarriesOwnTranslation ==
  \A c \in Calls :
    LET r == c[1]
        e == runs[r].returned[c[2]]
    IN  \A k \in 1..Len(e.cells) :
          Outcome(r, e.sheet, k).ok =>
            e.result[k].translated = Some(Produced(r, e.sheet, k, e.cells[k]))

\* C3: the array translateCells returns has the length of its input and
\* element k has the value (v) of input element k, however the batches ended.
ResultKeepsLengthAndValues ==
  \A c \in Calls :
    LET e == runs[c[1]].returned[c[2]]
    IN  /\ Len(e.result) = Len(e.cells)
        /\ \A k \in 1..Len(e.cells) : e.result[k].v = e.cells[k].v

\* a call of two batches, one failed and one answered with fewer lines than
\* cells (or with none), whose cells do not all differ
ResultAfterFailedAndShortBatches ==
  \E c \in Calls :
    LET r == c[1]
        e == runs[r].returned[c[2]]
        outcomes == OutcomesFor(r, e.sheet)
    IN  /\ ~DistinctValues(e.cells)
        /\ \E j \in 1..Len(outcomes) : ~outcomes[j].ok
        /\ \E j \in 1..Len(outcomes) :
             /\ outcomes[j].ok
             /\ Len(outcomes[j].response) < Len(BatchAt(e.cells, outcomes[j].i))

\* whether run r left the cell at (rowIndex, colIndex) of the sheet out of
\* the cells it submitted: protected column, skip-classified, or not a
\* non-empty string or number
NotSubmitted(r, sheet, rowIndex, colIndex) ==
  LET cell == sheet.rows[rowIndex][colIndex]
  IN  \/ /\ colIndex <= Len(sheet.columns)
         /\ sheet.columns[colIndex] \in Range(sheet.protectedColumns)
      \/ shouldSkipCell(cell, runs[r].state.glossary)
      \/ ~HasText(cell)

\* the sheets run r has finished
FinishedSheets(r) ==
  { runs[r].sheetsToTranslate[j].name :
      j \in 1..(IF runs[r].i - 1 < Len(runs[r].sheetsToTranslate)
                THEN runs[r].i - 1 ELSE Len(runs[r].sheetsToTranslate)) }

\* C4: a cell that was skip-classified or otherwise not submitted has no
\* translation in translatedRows, its effective text is its original value,
\* and that value is what an export writes for it.
SkippedCellsKeepOriginal ==
  /\ \A r \in 1..Len(runs) : \A name \in FinishedSheets(r) :
       LET sheet == ClosureSheet(r, name)
           done == ResultSheet(r, name)
       IN  \A rowIndex \in 1..Len(sheet.rows) :
             \A colIndex \in 1..Len(sheet.rows[rowIndex]) :
               NotSubmitted(r, sheet, rowIndex, colIndex) =>
                 /\ done.translatedRows[1][rowIndex][colIndex].translated = Undefined
                 /\ EffectiveText(done.translatedRows[1][rowIndex][colIndex])
                      = sheet.rows[rowIndex][colIndex].v
  /\ \A w \in 1..Len(written) :
       \E r \in 1..Len(runs) :
         /\ runs[r].pc = "done"
         /\ written[w].name \in FinishedSheets(r)
         /\ LET sheet == ClosureSheet(r, written[w].name)
            IN  /\ Len(written[w].data) = Len(sheet.rows)
                /\ \A rowIndex \in 1..Len(sheet.rows) :
                     /\ Len(written[w].data[rowIndex]) = Len(sheet.rows[rowIndex])
                     /\ \A colIndex \in 1..Len(sheet.rows[rowIndex]) :
                          NotSubmitted(r, sheet, rowIndex, colIndex) =>
                            written[w].data[rowIndex][colIndex]
                              = sheet.rows[rowIndex][colIndex].v

\* an export of a sheet in which a code was skipped, a boolean or a
\* protected cell was not submitted, and another cell was translated
ExportedWithSkippedCell ==
  /\ Len(written) > 0
  /\ \E r \in 1..Len(runs) : \E name \in FinishedSheets(r) :
       LET sheet == ClosureSheet(r, name)
           done == ResultSheet(r, name)
       IN  /\ runs[r].pc = "done"
           /\ \E rowIndex \in 1..Len(sheet.rows) :
                \E colIndex \in 1..Len(sheet.rows[rowIndex]) :
                  /\ shouldSkipCell(sheet.rows[rowIndex][colIndex], runs[r].state.glossary)
                  /\ HasText(sheet.rows[rowIndex][colIndex])
           /\ \E rowIndex \in 1..Len(sheet.rows) :
                \E colIndex \in 1..Len(sheet.rows[rowIndex]) :
                  /\ NotSubmitted(r, sheet, rowIndex, colIndex)
                  /\ ~shouldSkipCell(sheet.rows[rowIndex][colIndex], runs[r].state.glossary)
           /\ \E rowIndex \in 1..Len(sheet.rows) :
                \E colIndex \in 1..Len(sheet.rows[rowIndex]) :
                  /\ done.translatedRows[1][rowIndex][colIndex].translated /= Undefined
                  /\ EffectiveText(done.translatedRows[1][rowIndex][colIndex])
                       /= sheet.rows[rowIndex][colIndex].v

\* translatedRows of a sheet has the shape of rows and the same cell values
SameShapeAndValues(sheet) ==
  sheet.translatedRows /= Undefined =>
    /\ Len(sheet.translatedRows[1]) = Len(sheet.rows)
    /\ \A rowIndex \in 1..Len(sheet.rows) :
         /\ Len(sheet.translatedRows[1][rowIndex]) = Len(sheet.rows[rowIndex])
         /\ \A colIndex \in 1..Len(sheet.rows[rowIndex]) :
              sheet.translatedRows[1][rowIndex][colIndex].v
                = sheet.rows[rowIndex][colIndex].v

\* C5: translatedRows has the dimensions of rows (as many rows, and as many
\* cells in each row) and the cell at every position has the same value, in
\* the sheets a run holds and in the sheets of the component's state.
TranslatedRowsKeepShape ==
  /\ \A k \in 1..Len(state.sheets) : SameShapeAndValues(state.sheets[k])
  /\ \A r \in 1..Len(runs) : \A k \in 1..Len(runs[r].updatedSheets) :
       SameShapeAndValues(runs[r].updatedSheets[k])

\* the state holds a sheet of several cells of which one was translated and
\* one was skipped, a column being protected
ShapeKeptAroundSkippedAndProtected ==
  \E k \in 1..Len(state.sheets) :
    LET sheet == state.sheets[k]
    IN  /\ sheet.translatedRows /= Undefined
        /\ Len(sheet.protectedColumns) > 0
        /\ Len(sheet.rows) * Len(sheet.rows[1]) > 1
        /\ \E rowIndex \in 1..Len(sheet.rows) :
             \E colIndex \in 1..Len(sheet.rows[rowIndex]) :
               sheet.translatedRows[1][rowIndex][colIndex].translated /= Undefined
        /\ \E rowIndex \in 1..Len(sheet.rows) :
             \E colIndex \in 1..Len(sheet.rows[rowIndex]) :
               sheet.translatedRows[1][rowIndex][colIndex].skip = Some(TRUE)

\* C6: a submitted cell whose trimmed text is a canonical header, and whose
\* batch was answered, ends with the canonical label of the selected target
\* language as its translation, whatever the backend answered.  The code
\* knows the Hindi labels only, so TLC finds this violated for Marathi.
HeaderGetsLabelOfTargetLanguage ==
  \A c \in Calls :
    LET r == c[1]
        name == runs[r].returned[c[2]].sheet
        items == Submitted(r, name)
        target == runs[r].state.settings.target
    IN  \A k \in 1..Len(items) :
          ( /\ Outcome(r, name, k).ok
            /\ IsHeader(items[k].cell)
            /\ CanonicalLabel(target, Trim(TextOf(items[k].cell))) /= Undefined )
          => PlacedCell(r, name, items[k]).translated
               = CanonicalLabel(target, Trim(TextOf(items[k].cell)))

\* C7: when the response line at a cell's position in its batch is empty
\* once its ordinal is stripped (a line that holds an ordinal only), the cell
\* ends with its own original text as .translated.  Stated for the cells
\* that are no canonical header (a header's text is replaced by its label).
\* The parser drops such a line and the later lines move up, so TLC finds
\* this violated.
EmptyLineFallsBackToOriginal ==
  \A c \in Calls :
    LET r == c[1]
        e == runs[r].returned[c[2]]
    IN  \A k \in 1..Len(e.cells) :
          LET o == Outcome(r, e.sheet, k)
              p == PositionInBatch(k)
          IN  ( /\ o.ok
                /\ p <= Len(o.response)
                /\ CleanLine(o.response[p]) = <<>>
                /\ ~IsHeader(e.cells[k]) )
              => e.result[k].translated = Some(TextOf(e.cells[k]))

\* C8: when a batch of N cells is answered with k < N non-empty lines, the
\* parsed list has N entries of which the last N - k are empty, the first k
\* cells get the first k lines in order, and each of the last N - k cells
\* ends with its own original text as .translated.  Stated for the answers
\* whose lines all hold text beyond an ordinal and for the batches without
\* a canonical header.  The result is written by value, so TLC finds this
\* violated when two cells of the batch hold the same value.
ShortResponseFillsFromTheFront ==
  \A c \in Calls :
    LET r == c[1]
        e == runs[r].returned[c[2]]
        outcomes == OutcomesFor(r, e.sheet)
    IN  \A j \in 1..Len(outcomes) :
          LET o == outcomes[j]
              batch == BatchAt(e.cells, o.i)
              N == Len(batch)
              lines == SelectSeq(o.response, LAMBDA line : Trim(line) /= <<>>)
              k == Len(lines)
              parsed == parseTranslationResponse(o.response, N)
          IN  ( /\ o.ok
                /\ k < N
                /\ \A q \in 1..k : CleanLine(lines[q]) /= <<>>
                /\ \A q \in 1..N : ~IsHeader(batch[q]) )
              => /\ Len(parsed) = N
                 /\ \A q \in 1..k : parsed[q] = CleanLine(lines[q])
                 /\ \A q \in (k + 1)..N : parsed[q] = <<>>
                 /\ \A q \in 1..k :
                      e.result[o.i + q].translated
                        = Some(FinalTranslation(o.translations[q], batch[q]))
                 /\ \A q \in (k + 1)..N :
                      e.result[o.i + q].translated = Some(TextOf(batch[q]))

\* C9: a failed batch does not abort translateCells: the batches of a call
\* are requested at the offsets 0, batchSize, 2 * batchSize, ... in this
\* order and once each, whether earlier ones failed or not; each request has
\* at most one outcome; after a failed batch that is not the last the next
\* one is already requested; and the call returns exactly when its last
\* batch has been dealt with.
FailedBatchDoesNotStopTheLoop ==
  \A r \in 1..Len(runs) :
    \A name \in {runs[r].sheetsToTranslate[j].name : j \in 1..Len(runs[r].sheetsToTranslate)} :
      LET requests == RequestsFor(r, name)
          outcomes == OutcomesFor(r, name)
          n == NBatches(Len(Submitted(r, name)))
          hasReturned == \E k \in 1..Len(runs[r].returned) : runs[r].returned[k].sheet = name
      IN  /\ \A j \in 1..Len(requests) : requests[j].i = (j - 1) * batchSize
          /\ Len(requests) <= n
          /\ Len(outcomes) <= Len(requests) /\ Len(requests) <= Len(outcomes) + 1
          /\ \A j \in 1..Len(outcomes) : outcomes[j].i = requests[j].i
          /\ \A j \in 1..Len(outcomes) :
               (~outcomes[j].ok /\ j < n) => Len(requests) > j
          /\ hasReturned => (Len(requests) = n /\ Len(outcomes) = n)
          /\ (n > 0 /\ Len(outcomes) = n /\ ~outcomes[n].ok) => hasReturned
          /\ (n > 0 /\ Len(outcomes) = n /\ runs[r].pc /= "delay") => hasReturned

\* a call has returned whose first batch failed and whose second batch was
\* requested after it and answered
ReturnedAfterFailedFirstBatch ==
  \E c \in Calls :
    LET r == c[1]
        name == runs[r].returned[c[2]].sheet
        requests == RequestsFor(r, name)
        outcomes == OutcomesFor(r, name)
    IN  /\ Len(requests) = 2 /\ Len(outcomes) = 2
        /\ ~outcomes[1].ok
        /\ outcomes[2].ok
        /\ runs[r].pc = "done"

\* C10: every cell of a failed batch carries no .translated in the array
\* translateCells returns and, once placed, its exported text is its original
\* value, whatever happened to the other batches.  A later batch that holds
\* an equal value writes onto the cell of the failed batch, so TLC finds this
\* violated.
FailedBatchLeavesCellsUntouched ==
  \A c \in Calls :
    LET r == c[1]
        e == runs[r].returned[c[2]]
        items == Submitted(r, e.sheet)
    IN  \A k \in 1..Len(e.cells) :
          ~Outcome(r, e.sheet, k).ok =>
            /\ e.result[k].translated = Undefined
            /\ EffectiveText(PlacedCell(r, e.sheet, items[k])) = items[k].cell.v

\* a <= b for two fractions with positive denominators
FracLeq(a, b) == a.num * b.den <= b.num * a.den

\* C11: translateCells reports progress after each batch, succeeded or failed:
\* every batch that has been dealt with has a call of onProgress, its value is
\* the share of the eligible cells the loop has gone through by then, the
\* values never decrease, and the one after the last batch is 1.  The call
\* of onProgress stands inside the try block (translation.ts:70-73), so a
\* failed batch reports nothing and TLC finds this violated.
ProgressReportedAfterEveryBatch ==
  \A r \in 1..Len(runs) :
    \A name \in {runs[r].sheetsToTranslate[j].name : j \in 1..Len(runs[r].sheetsToTranslate)} :
      LET outcomes == OutcomesFor(r, name)
          n == Len(Submitted(r, name))
          done(j) == IF outcomes[j].i + batchSize < n THEN outcomes[j].i + batchSize ELSE n
      IN  /\ \A j \in 1..Len(outcomes) :
               /\ outcomes[j].onProgress /= Undefined
               /\ outcomes[j].onProgress[1].num * n = done(j) * outcomes[j].onProgress[1].den
          /\ \A j \in 2..Len(outcomes) :
               (outcomes[j - 1].onProgress /= Undefined /\ outcomes[j].onProgress /= Undefined)
                 => FracLeq(outcomes[j - 1].onProgress[1], outcomes[j].onProgress[1])
          /\ (n > 0 /\ Len(outcomes) = NBatches(n)) =>
               outcomes[NBatches(n)].onProgress = Some([num |-> n, den |-> n])

\* the runs that await the answer to a batch request, and the runs that have
\* not finished
InFlight == {r \in 1..Len(runs) : runs[r].pc = "fetch"}
InProgress == {r \in 1..Len(runs) : runs[r].pc /= "done"}

\* C12: whatever the user does (Translate, Cancel or Close on the progress
\* modal, Translate again), at most one batch request is in flight and at most
\* one run of handleTranslate is in progress.  handleCloseModal only clears
\* isProcessing (App.tsx:312-315): the run goes on, the Translate button is
\* enabled again, and a second click starts a second run beside the first, so
\* TLC finds this violated.
AtMostOneRunAtATime ==
  /\ Cardinality(InFlight) <= 1
  /\ Cardinality(InProgress) <= 1

\* C13: once the user has cancelled a run in progress, the run starts no
\* further batch request.  A run is in progress with state.isProcessing false
\* only after handleCloseModal has dismissed the modal; from then on every step
\* is to leave the run's list of requests as it is.  handleCloseModal hands
\* the run no signal and the loop of translateCells reads none
\* (translation.ts:26-82), so the remaining batches are requested and TLC
\* finds this violated.
NoRequestOnceCancelled ==
  [][\A r \in 1..Len(runs) :
       (~state.isProcessing /\ runs[r].pc /= "done" /\ r <= Len(runs'))
         => Len(runs'[r].requests) = Len(runs[r].requests)]_vars

\* the cells handleTranslate collects from the sheets of run h
CollectedBy(h) ==
  [j \in 1..Len(h.sheetsToTranslate) |->
     CollectCells(ClassifyRows(h.sheetsToTranslate[j], h.state.glossary))]

\* C14: a click on Translate that finds no translatable cell in the included
\* sheets ends the run at once with an error message: it makes no backend
\* request, sets translatedRows on no sheet and leaves the page on the step
\* it is on.  (With no sheet included the button is disabled, App.tsx:396, so
\* handleTranslate's early return is never reached.)  For a sheet without
\* translatable cells the code takes the else branch of App.tsx:258-263,
\* stores the rows as translatedRows and goes on to the preview step without
\* any message, so TLC finds this violated.
EmptyRunEndsWithError ==
  [][(Len(runs') = Len(runs) + 1) =>
       LET h == runs'[Len(runs')]
       IN  (\A j \in 1..Len(h.sheetsToTranslate) : CollectedBy(h)[j] = <<>>) =>
             /\ h.requests = <<>>
             /\ error' /= Undefined
             /\ currentStep' = currentStep
             /\ \A k \in 1..Len(state.sheets) :
                  state'.sheets[k].translatedRows = state.sheets[k].translatedRows]_vars

\* the column of colIndex is one of the sheet's protected columns
InProtectedColumn(sheet, colIndex) ==
  /\ colIndex <= Len(sheet.columns)
  /\ sheet.columns[colIndex] \in Range(sheet.protectedColumns)

\* the cell objects run r has handed to translateCells for the sheet so far
HandedOver(r, name) ==
  UNION ( { Range(runs[r].returned[k].cells) :
              k \in {j \in 1..Len(runs[r].returned) : runs[r].returned[j].sheet = name} }
          \cup { IF /\ runs[r].i <= Len(runs[r].sheetsToTranslate)
                    /\ runs[r].sheetsToTranslate[runs[r].i].name = name
                 THEN Range(runs[r].tc.cells) ELSE {} } )

\* C17: a cell in a column that is protected when the run starts is never
\* handed to translateCells, whatever it holds, and in the translatedRows the
\* run stores it is marked skip and has its original value and no translation.
ProtectedColumnsAreSkipped ==
  \A r \in 1..Len(runs) :
    \A name \in {runs[r].sheetsToTranslate[j].name : j \in 1..Len(runs[r].sheetsToTranslate)} :
      LET sheet == ClosureSheet(r, name)
      IN  \A rowIndex \in 1..Len(sheet.rows) :
            \A colIndex \in 1..Len(sheet.rows[rowIndex]) :
              InProtectedColumn(sheet, colIndex) =>
                /\ \A sent \in HandedOver(r, name) :
                     ~SameObject(sent, sheet.rows[rowIndex][colIndex])
                /\ name \in FinishedSheets(r) =>
                     LET kept == ResultSheet(r, name).translatedRows[1][rowIndex][colIndex]
                     IN  /\ kept.skip = Some(TRUE)
                         /\ kept.v = sheet.rows[rowIndex][colIndex].v
                         /\ kept.translated = Undefined

\* a run has finished a sheet in which a protected column holds a cell that
\* would be translated otherwise, and a cell of another column was translated
ProtectedCellBesideTranslatedCell ==
  \E r \in 1..Len(runs) : \E name \in FinishedSheets(r) :
    LET sheet == ClosureSheet(r, name)
        kept == ResultSheet(r, name).translatedRows[1]
    IN  /\ runs[r].pc = "done"
        /\ \E rowIndex \in 1..Len(sheet.rows) :
             \E colIndex \in 1..Len(sheet.rows[rowIndex]) :
               /\ InProtectedColumn(sheet, colIndex)
               /\ IsEligible(sheet.rows[rowIndex][colIndex])
               /\ ~shouldSkipCell(sheet.rows[rowIndex][colIndex], runs[r].state.glossary)
        /\ \E rowIndex \in 1..Len(sheet.rows) :
             \E colIndex \in 1..Len(sheet.rows[rowIndex]) :
               /\ ~InProtectedColumn(sheet, colIndex)
               /\ kept[rowIndex][colIndex].translated /= Undefined
               /\ kept[rowIndex][colIndex].translated[1] /= TextOf(sheet.rows[rowIndex][colIndex])

\* the number of submitted cells of run r whose batch was answered and whose
\* entry of translateBatch's result is a text
ReceivedTranslation(r) ==
  SumSeq([j \in 1..Len(runs[r].sheetsToTranslate) |->
    LET name == runs[r].sheetsToTranslate[j].name
    IN  Cardinality({k \in 1..Len(Submitted(r, name)) :
                       /\ Outcome(r, name, k).ok
                       /\ Outcome(r, name, k).translations[PositionInBatch(k)] /= <<>>})])

\* C20: the statistics a run stores when it ends count as translated only the
\* cells that received a translation from the backend; the cells of failed
\* batches and those a short response left without a line are not among them.
\* handleTranslate sets translated to total - skipped whatever became of the
\* batches (App.tsx:267-268), and TranslationStats has no count of
\* untranslated cells, so TLC finds this violated.
StatsCountReceivedTranslations ==
  \A r \in 1..Len(runs) :
    runs[r].pc = "done" => FinalStats(runs[r]).translated = ReceivedTranslation(r)

\* the cell the classifier was called on, and its copy in updatedRows
ProbedCell == probe.sheet.rows[1][1]
ClassifiedCell == probe.updatedRows[1][1]

\* some term of the glossary is, case-insensitively, a substring of the text
GlossaryHit(text, glossary) ==
  \E k \in 1..Len(glossary) :
    Includes(ToLowerCase(text), ToLowerCase(glossary[k].term))

BareNumberIsTranslated ==
  ( /\ probe.classified
    /\ ProbedCell.v.ty = "number"
    /\ probe.sheet.protectedColumns = <<>>
    /\ ~GlossaryHit(Trim(TextOf(ProbedCell)), probe.glossary) ) =>
      /\ ClassifiedCell.skip /= Some(TRUE)
      /\ Len(probe.sent) = 1
      /\ SameObject(probe.sent[1], ProbedCell)

\* two calls were made with the same arguments
SameArguments(a, b) ==
  /\ a.originalText = b.originalText
  /\ a.translatedText = b.translatedText
  /\ a.context = b.context
  /\ a.language = b.language

\* C18: checkTranslationQuality is stateless: any two calls with the same
\* original text, translated text, context and language return the same
\* issues and the same score, whatever was called before or between them.
\* checkGrammar calls test() on GRAMMAR_PATTERNS.genderMismatch, a pattern
\* with the g flag that the module creates once (part_003:71, 186;
\* qualityChecker.ts:161): a match leaves its lastIndex behind, the next call
\* searches from there, and TLC finds this violated.
SameCallSameReport ==
  \A i, j \in 1..Len(probe.calls) :
    SameArguments(probe.calls[i], probe.calls[j]) =>
      /\ probe.calls[i].report.issues = probe.calls[j].report.issues
      /\ probe.calls[i].report.score = probe.calls[j].report.score

\* the number of issues of a severity
CountSeverity(issues, severity) ==
  Len(SelectSeq(issues, LAMBDA issue : issue.severity = severity))

\* C19: the score is an integer from 0 to 100, also for an original text of
\* length 0; it is 100 for no issues; and with the length of the original
\* text fixed, the score of a list of issues with one issue more, of any
\* severity, is not higher.
ScoreBoundedAndMonotone ==
  /\ \A k \in 1..Len(probe.scores) : probe.scores[k] \in 0..100
  /\ probe.scores[1] = 100
  /\ \A k \in 2..Len(probe.scores) : probe.scores[k] <= probe.scores[k - 1]
  /\ Len(probe.scores) = Len(probe.issues) + 1
  /\ probe.scores[Len(probe.scores)] = calculateQualityScore(probe.issues, probe.textLength)

\* issues have been added for an original text of length 0, and the score
\* fell from 100 to 0 with the first of them
ScoredEmptyOriginalText ==
  /\ probe.textLength = 0
  /\ Len(probe.issues) = 2
  /\ probe.scores = <<100, 0, 0>>

\* C23: a run issues a further batch request only when the delay that
\* follows a batch has elapsed: in every step in which the list of requests
\* of a run grows, the run was waiting for the timer.  The timer is set at
\* the end of the try block (translation.ts:76); after a failed batch the
\* catch block falls through to the next iteration and the next request
\* goes out at once, so TLC finds this violated.
DelayBeforeEveryFurtherRequest ==
  [][\A r \in 1..Len(runs) :
       (r <= Len(runs') /\ Len(runs'[r].requests) > Len(runs[r].requests))
         => runs[r].pc = "delay"]_vars

\* the values of HINDI_FORMAL_WORDS_MAP, in the order of its keys
HINDI_FORMAL_WORDS_ALTERNATIVES ==
  << << <<"d_JA", "d_NUKTA", "d_RA", "d_vUU", "d_RA", "d_vII">>,
        <<"d_SA", "d_RA", "d_KA", "d_vAA", "d_RA", "d_vII">> >>,
     << <<"d_YA", "d_vO", "d_JA", "d_NA", "d_vAA">> >>,
     << <<"d_SA", "d_vAA", "d_PHA", "d_NUKTA", " ", "d_SA", "d_MA", "d_JHA">> >>,
     << <<"d_SA", "d_vII", "d_KHA", "d_NA", "d_vE", " ", "d_KA", "d_vII", " ", "d_PA", "d_HA", "d_LA">> >>,
     << <<"d_TA", "d_RA", "d_vII", "d_KA", "d_vAA">> >>,
     << <<"d_SA", "d_vAA", "d_THA">>,
        <<"d_SA", "d_VIRAMA", "d_THA", "d_vI", "d_TA", "d_vI", " ", "d_KA", "d_vE", " ", "d_A", "d_NA", "d_vU", "d_SA", "d_vAA", "d_RA">> >>,
     << <<"d_JA", "d_vAA", "d_ANUSVARA", "d_CA">>,
        <<"d_SA", "d_MA", "d_JHA">> >>,
     << <<"d_AA", "d_SA", "d_vAA", "d_NA">>,
        <<"d_SA", "d_RA", "d_LA">> >>,
     << <<"d_MA", "d_JA", "d_NUKTA", "d_BA", "d_vUU", "d_TA", " ", "d_KA", "d_RA", "d_NA", "d_vAA">>,
        <<"d_BA", "d_NA", "d_vAA", "d_NA", "d_vAA">> >>,
     << <<"d_BHA", "d_vAA", "d_GA", "d_vII", "d_DA", "d_vAA", "d_RA", "d_vII">>,
        <<"d_HA", "d_vI", "d_SA", "d_VIRAMA", "d_SA", "d_vAA", " ", "d_LA", "d_vE", "d_NA", "d_vAA">> >>,
     << <<"d_LA", "d_vAA", "d_GA", "d_vUU", " ", "d_KA", "d_RA", "d_NA", "d_vAA">>,
        <<"d_SHA", "d_vU", "d_RA", "d_vUU", " ", "d_KA", "d_RA", "d_NA", "d_vAA">> >>,
     << <<"d_NA", "d_TA", "d_vII", "d_JA", "d_vAA">>,
        <<"d_PHA", "d_LA">> >>,
     << <<"d_LA", "d_KA", "d_VIRAMA", "d_SSA", "d_VIRAMA", "d_YA">>,
        <<"d_MA", "d_KA", "d_SA", "d_DA">> >>,
     << <<"d_HA", "d_vAA", "d_SA", "d_vI", "d_LA", " ", "d_KA", "d_RA", "d_NA", "d_vAA">>,
        <<"d_PA", "d_vAA", "d_NA", "d_vAA">> >>,
     << <<"d_I", "d_ANUSVARA", "d_TA", "d_JA", "d_NUKTA", "d_vAA", "d_MA">>,
        <<"d_BA", "d_ANUSVARA", "d_DA", "d_vO", "d_BA", "d_SA", "d_VIRAMA", "d_TA">> >>,
     << <<"d_SA", "d_ANUSVARA", "d_CA", "d_vAA", "d_LA", "d_NA">>,
        <<"d_PA", "d_VIRAMA", "d_RA", "d_BA", "d_ANUSVARA", "d_DHA">> >>,
     << <<"d_BA", "d_DDHA", "d_NUKTA", "d_vAA", "d_VA", "d_vAA">>,
        <<"d_U", "d_NA", "d_VIRAMA", "d_NA", "d_TA", "d_vI">> >>,
     << <<"d_BA", "d_vE", "d_HA", "d_TA", "d_RA", " ", "d_BA", "d_NA", "d_vAA", "d_NA", "d_vAA">>,
        <<"d_SA", "d_vU", "d_DHA", "d_vAA", "d_RA", "d_NA", "d_vAA">> >>,
     << <<"d_JA", "d_vAA", "d_ANUSVARA", "d_CA">>,
        <<"d_DA", "d_vE", "d_KHA", "d_NA", "d_vAA">> >>,
     << <<"d_TTA", "d_vE", "d_SA", "d_VIRAMA", "d_TTA">>,
        <<"d_JA", "d_vAA", "d_ANUSVARA", "d_CA">> >> >>

\* the values of MARATHI_FORMAL_WORDS_MAP, in the order of its keys
MARATHI_FORMAL_WORDS_ALTERNATIVES ==
  << << <<"d_AA", "d_VA", "d_SHA", "d_VIRAMA", "d_YA", "d_KA">>,
        <<"d_SA", "d_RA", "d_KA", "d_vAA", "d_RA", "d_vII">> >>,
     << <<"d_YA", "d_vO", "d_JA", "d_NA", "d_vAA">> >>,
     << <<"d_SA", "d_VIRAMA", "d_PA", "d_SSA", "d_VIRAMA", "d_TTA", " ", "d_SA", "d_MA", "d_JA">> >>,
     << <<"d_SHA", "d_vI", "d_KA", "d_NNA", "d_VIRAMA", "d_YA", "d_vAA", "d_CA", "d_vII", " ", "d_SA", "d_vU", "d_RA", "d_vU", "d_VA", "d_vAA", "d_TA">> >>,
     << <<"d_PA", "d_DA", "d_VIRAMA", "d_DHA", "d_TA">> >>,
     << <<"d_SA", "d_VIRAMA", "d_THA", "d_vI", "d_TA", "d_vII">>,
        <<"d_PA", "d_RA", "d_vI", "d_SA", "d_VIRAMA", "d_THA", "d_vI", "d_TA", "d_vII", "d_NA", "d_vU", "d_SA", "d_vAA", "d_RA">> >>,
     << <<"d_TA", "d_PA", "d_vAA", "d_SA", "d_NNA", "d_vII">>,
        <<"d_SA", "d_MA", "d_JA">> >>,
     << <<"d_SA", "d_vO", "d_PA", "d_vE">>,
        <<"d_SA", "d_RA", "d_LLA">> >>,
     << <<"d_MA", "d_JA", "d_BA", "d_vUU", "d_TA", " ", "d_KA", "d_RA", "d_NNA", "d_vE">>,
        <<"d_TA", "d_YA", "d_vAA", "d_RA", " ", "d_KA", "d_RA", "d_NNA", "d_vE">> >>,
     << <<"d_SA", "d_HA", "d_BHA", "d_vAA", "d_GA">>,
        <<"d_BHA", "d_vAA", "d_GA", " ", "d_GHA", "d_vE", "d_NNA", "d_vE">> >> >>

\* the formal terms of a target language and the alternatives of the k-th
FormalTerms(target) ==
  IF target = "hi-IN" THEN HINDI_FORMAL_WORDS_MAP ELSE MARATHI_FORMAL_WORDS_MAP
Alternatives(target, k) ==
  IF target = "hi-IN" THEN HINDI_FORMAL_WORDS_ALTERNATIVES[k]
  ELSE MARATHI_FORMAL_WORDS_ALTERNATIVES[k]

\* C25: when the line the parser hands the post-processor for a submitted
\* cell that is no header holds a formal term of the run's target language,
\* the text the batch returns for the cell holds one of the alternatives that
\* language's term map gives the term.  The post-processor has one map, the
\* Hindi one, and is not told the target, so TLC finds this violated for a
\* run whose target is Marathi.
SubstitutionFollowsTargetLanguage ==
  \A c \in Calls :
    LET r == c[1]
        e == runs[r].returned[c[2]]
        target == runs[r].state.settings.target
    IN  \A k \in 1..Len(e.cells) :
          LET o == Outcome(r, e.sheet, k)
              p == PositionInBatch(k)
              batch == BatchAt(e.cells, BatchOffset(k))
              parsed == parseTranslationResponse(o.response, Len(batch))
          IN  (o.ok /\ ~IsHeader(e.cells[k]))
              => \A j \in 1..Len(FormalTerms(target)) :
                   Includes(parsed[p], FormalTerms(target)[j])
                   => \E a \in 1..Len(Alternatives(target, j)) :
                        Includes(o.translations[p], Alternatives(target, j)[a])

\* C28: the step that completes a run leaves every sheet's include flag and
\* protectedColumns as they were just before it, that is, as the user last
\* set them.  The completing setState installs the sheets the run derived
\* from the state it read when it started, so TLC finds this violated once
\* the user has changed a flag after dismissing the modal.
CompletionKeepsUserChoices ==
  [][\A r \in 1..Len(runs) :
       (r <= Len(runs') /\ runs[r].pc /= "done" /\ runs'[r].pc = "done")
         => /\ Len(state'.sheets) = Len(state.sheets)
            /\ \A k \in 1..Len(state.sheets) :
                 /\ state'.sheets[k].include = state.sheets[k].include
                 /\ state'.sheets[k].protectedColumns = state.sheets[k].protectedColumns]_vars

\* the rows are as parseExcelFile made them: every cell is the very object
\* the parser created for its value, with no translated and no skip
AsParsed(rows) ==
  \A i \in 1..Len(rows) : \A j \in 1..Len(rows[i]) :
    rows[i][j] = ParseCell(rows[i][j].v, i, j)

\* the sheets run r has gone through so far
SheetsDone(r) ==
  {runs[r].sheetsToTranslate[n].name :
     n \in 1..(IF runs[r].i - 1 < Len(runs[r].sheetsToTranslate)
               THEN runs[r].i - 1 ELSE Len(runs[r].sheetsToTranslate))}

\* C27: a run leaves the rows of every sheet alone, and what it writes is a
\* translatedRows built from the rows.  The rows of the state and of every
\* run's working copy are as the parser made them (value, kind, no
\* translated, no skip) and a run's copy has the rows the run started with;
\* the translatedRows a run gives a sheet has the shape, the values and the
\* kinds of the rows, and carries a translation only at a place the run
\* itself submitted, so nothing of a previous run's translatedRows survives.
RunsLeaveRowsAlone ==
  /\ \A k \in 1..Len(state.sheets) : AsParsed(state.sheets[k].rows)
  /\ \A r \in 1..Len(runs) :
       /\ Len(runs[r].updatedSheets) = Len(runs[r].state.sheets)
       /\ \A k \in 1..Len(runs[r].updatedSheets) :
            /\ runs[r].updatedSheets[k].rows = runs[r].state.sheets[k].rows
            /\ AsParsed(runs[r].updatedSheets[k].rows)
       /\ \A name \in SheetsDone(r) :
            LET sheet == ResultSheet(r, name)
                items == Submitted(r, name)
            IN  /\ sheet.translatedRows /= Undefined
                /\ Len(sheet.translatedRows[1]) = Len(sheet.rows)
                /\ \A i \in 1..Len(sheet.rows) :
                     /\ Len(sheet.translatedRows[1][i]) = Len(sheet.rows[i])
                     /\ \A j \in 1..Len(sheet.rows[i]) :
                          LET cell == sheet.translatedRows[1][i][j]
                          IN  /\ cell.v = sheet.rows[i][j].v
                              /\ cell.t = sheet.rows[i][j].t
                              /\ cell.translated /= Undefined
                                   => \E n \in 1..Len(items) :
                                        items[n].rowIndex = i /\ items[n].colIndex = j

\* a second run has replaced the translatedRows of the first: the cell the
\* first run translated carries no translation after the second, and the
\* rows are still as parsed
SecondRunReplacedTranslatedRows ==
  /\ Len(runs) = 2
  /\ runs[1].pc = "done"
  /\ runs[2].pc = "done"
  /\ Len(state.sheets) = 1
  /\ state.sheets[1].translatedRows = runs[2].updatedSheets[1].translatedRows
  /\ runs[1].updatedSheets[1].translatedRows /= Undefined
  /\ runs[1].updatedSheets[1].translatedRows[1][1][1].translated /= Undefined
  /\ state.sheets[1].translatedRows /= Undefined
  /\ state.sheets[1].translatedRows[1][1][1].translated = Undefined
  /\ state.sheets[1].rows[1][1].translated = Undefined

\* one of the conditions the classification is said to rest on holds of the
\* probed cell: no value or an empty text, a protected column, the kind
\* formula or date, an e-mail address, a URL, a glossary term in the text,
\* or a text of at most ten capitals, hyphens and underscores
ListedSkipCondition ==
  LET cell == ProbedCell
      value == Trim(TextOf(cell))
  IN  \/ cell.v = Null
      \/ value = <<>>
      \/ probe.sheet.columns[1] \in Range(probe.sheet.protectedColumns)
      \/ cell.t = "f"
      \/ cell.t = "d"
      \/ isEmail(value)
      \/ isUrl(value)
      \/ GlossaryHit(value, probe.glossary)
      \/ (IsCodeShape(value) /\ Len(value) <= 10)

\* C21: a classified cell is marked skip exactly when one of the listed
\* conditions holds of it, and is sent to the backend exactly when none
\* does.  shouldSkipCell begins with `if (!cell.v) return true`
\* (excel.ts:95), so the number 0, of which no listed condition holds, is
\* marked skip, and TLC finds this violated.
SkipExactlyOnListedCondition ==
  probe.classified =>
    /\ (ClassifiedCell.skip = Some(TRUE)) <=> ListedSkipCondition
    /\ (~ListedSkipCondition /\ IsStringOrNumber(ProbedCell.v)) => Len(probe.sent) = 1

\* the total penalty of a list of issues
Penalty(issues) ==
  15 * CountSeverity(issues, "high") + 8 * CountSeverity(issues, "medium")
    + 3 * CountSeverity(issues, "low")

\* s is max(0, round(100 - P / min(L / 100, 2))).  With m = min(L, 200) the
\* value rounded is x = 100 - 100 P / m; round(x) is the integer n with
\* n - 1/2 <= x < n + 1/2, that is (2n - 1) m <= 200 m - 200 P < (2n + 1) m,
\* and the maximum with 0 is 0 exactly when x < 1/2.  For L = 0 the penalty
\* is divided by 0 and the score is 0.
IsScoreOf(s, P, L) ==
  LET m == IF L < 200 THEN L ELSE 200
      twiceX == 200 * m - 200 * P
  IN  IF m = 0 \/ twiceX < m THEN s = 0
      ELSE /\ s >= 1
           /\ (2 * s - 1) * m <= twiceX
           /\ twiceX < (2 * s + 1) * m

\* C26: the score of no issues is 100; the score of a list with at least one
\* issue is max(0, round(100 - P / min(L / 100, 2))), where P is 15 for each
\* high, 8 for each medium and 3 for each low issue and L is the length of
\* the original text; for L = 0 it is 0.
ScoreIsRoundedNormalisedPenalty ==
  \A k \in 1..Len(probe.scores) :
    LET issues == SubSeq(probe.issues, 1, k - 1)
    IN  IF k = 1 THEN probe.scores[k] = 100
        ELSE /\ IsScoreOf(probe.scores[k], Penalty(issues), probe.textLength)
             /\ probe.textLength = 0 => probe.scores[k] = 0

\* one low issue on an original text of 8 characters: 100 - 3 / 0.08 is
\* 62.5, which rounds up to 63
ScoredHalfRoundedUp ==
  /\ probe.textLength = 8
  /\ Len(probe.issues) = 1
  /\ probe.issues[1].severity = "low"
  /\ probe.scores = <<100, 63>>

(***************************************************************************)
(* postProcessTranslations on its own: an original text and a backend      *)
(* line put together from fragments, post-processed once and then once     *)
(* more.                                                                   *)
(***************************************************************************)
MaxFragments == 3
MaxPasses == 2

\* the original texts: the canonical headers, a header between blanks and a
\* plain word
PostProcessOriginals ==
  Range(columnHeaders)
    \cup { <<" ", "Q", "u", "e", "s", "t", "i", "o", "n", " ">>, <<"c", "a", "t">> }

\* the pieces of a backend line: a formal term, the beginning of it, a
\* second formal term, the Hindi label of a header, an ordinal
Fragments ==
  { <<"d_SA", "d_vU", "d_LA", "d_BHA">>,
    <<"d_SA", "d_vU", "d_LA">>,
    <<"d_SA", "d_HA", "d_BHA", "d_vAA", "d_GA", "d_vI", "d_TA", "d_vAA">>,
    <<"d_PA", "d_VIRAMA", "d_RA", "d_SHA", "d_VIRAMA", "d_NA">>,
    <<"1", ".", " ">> }

InitPostProcess ==
  /\ Mounted
  /\ probe \in { [originalText |-> originalText, translation |-> <<>>, fragments |-> 0,
                  passes |-> <<>>] :
                 originalText \in PostProcessOriginals }

\* the backend line grows by a fragment
AppendFragment ==
  /\ probe.passes = <<>>
  /\ probe.fragments < MaxFragments
  /\ \E fragment \in Fragments :
       probe' = [probe EXCEPT !.translation = @ \o fragment, !.fragments = @ + 1]
  /\ UNCHANGED appVars

\* postProcessTranslations is applied to the line, or to what the previous
\* application returned
PostProcess ==
  /\ Len(probe.passes) < MaxPasses
  /\ LET input == IF probe.passes = <<>> THEN probe.translation
                  ELSE probe.passes[Len(probe.passes)]
         output == postProcessTranslations(<<input>>, <<probe.originalText>>)
     IN  probe' = [probe EXCEPT !.passes = Append(@, output[1])]
  /\ UNCHANGED appVars

NextPostProcess == AppendFragment \/ PostProcess

SpecPostProcess == InitPostProcess /\ [][NextPostProcess]_vars

\* checkStructure(originalText, translatedText) as utils/qualityChecker.ts
\* has it: the translated text is compared with the label once trimmed, its
\* ordinal left in place
checkStructureUntrimmed(originalText, translatedText) ==
  LET serial == IF serialNumberPattern(originalText) /\ ~serialNumberPattern(translatedText)
                THEN <<QualityIssue("structure", "low", "serialNumber")>>
                ELSE <<>>
      wrong == SelectSeq(columnMappings,
                 LAMBDA m : Trim(originalText) = m[1] /\ Trim(translatedText) /= m[2])
  IN  serial \o [k \in 1..Len(wrong) |-> QualityIssue("structure", "high", wrong[k][1])]

\* C24: the text postProcessTranslations returns for a cell that is no
\* header contains no key of the formal-to-colloquial map, and a second
\* application returns what the first returned.  The keys are replaced one
\* after the other in the order of the map, and a replacement can complete a
\* key that comes earlier in it, so TLC finds this violated.
NoFormalWordAfterPostProcessing ==
  (Len(probe.passes) >= 1 /\ Trim(probe.originalText) \notin Range(columnHeaders)) =>
    /\ \A k \in 1..Len(formalWordReplacements) :
         ~Includes(probe.passes[1], formalWordReplacements[k][1])
    /\ Len(probe.passes) >= 2 => probe.passes[2] = probe.passes[1]

\* C29: for an original text that is a canonical header, whatever the
\* backend line, checkStructure (in either of its two versions) raises no
\* issue of high severity on the text postProcessTranslations returns.
PostProcessedHeaderPassesStructureCheck ==
  (Len(probe.passes) >= 1 /\ Trim(probe.originalText) \in Range(columnHeaders)) =>
    LET issues == checkStructure(probe.originalText, probe.passes[1])
                    \o checkStructureUntrimmed(probe.originalText, probe.passes[1])
    IN  \A k \in 1..Len(issues) : issues[k].severity /= "high"

\* the header Option1 was answered with an ordinal and the label of another
\* header, and post-processing has put its own label in place
WrongHeaderAnswerCorrected ==
  /\ probe.originalText = <<"O", "p", "t", "i", "o", "n", "1">>
  /\ probe.translation = <<"1", ".", " ">> \o <<"d_PA", "d_VIRAMA", "d_RA", "d_SHA", "d_VIRAMA", "d_NA">>
  /\ Len(probe.passes) >= 1
  /\ probe.passes[1] = HeaderLookup(probe.originalText)[1]
  /\ checkStructure(probe.originalText, probe.translation) /= <<>>

(***************************************************************************)
(* The PromptEditor component (components/PromptEditor.tsx).  A template   *)
(* is held without its dates; a name is a text, a prompt or a description  *)
(* is held whole, since the component only copies it.  An id is held in    *)
(* its parts: 'default-hindi' is DefaultId("default-hindi"),               *)
(* `template-${Date.now()}` is NewId(now) and `copy-${id}-${Date.now()}`   *)
(* is CopyId(id, now).  The component that renders PromptEditor is not in  *)
(* the sources: `controlled` tells whether it passes the template it got   *)
(* by onPromptChange back as currentTemplate, or passes none.              *)
(***************************************************************************)
MaxIds == 1

DefaultId(name) == [kind |-> "default", of |-> name, now |-> 0]
NewId(now) == [kind |-> "template", of |-> "", now |-> now]
CopyId(id, now) == [kind |-> "copy", of |-> id.of, now |-> now]

defaultTemplates ==
  << [ id |-> DefaultId("default-hindi"),
       name |-> <<"H", "i", "n", "d", "i", " ", "(", "E", "d", "u", "c", "a", "t", "i", "o", "n", "a", "l", ")">>,
       description |-> "Hindi translation with educational context and quality rules",
       systemPrompt |-> "systemPrompt of default-hindi",
       userPrompt |-> "userPrompt of default-hindi",
       isDefault |-> TRUE ],
     [ id |-> DefaultId("marathi-educational"),
       name |-> <<"M", "a", "r", "a", "t", "h", "i", " ", "(", "E", "d", "u", "c", "a", "t", "i", "o", "n", "a", "l", ")">>,
       description |-> "Marathi translation with educational context and quality rules",
       systemPrompt |-> "systemPrompt of marathi-educational",
       userPrompt |-> "userPrompt of marathi-educational",
       isDefault |-> TRUE ],
     [ id |-> DefaultId("formal-hindi"),
       name |-> <<"H", "i", "n", "d", "i", " ", "(", "B", "u", "s", "i", "n", "e", "s", "s", ")">>,
       description |-> "Formal Hindi translation suitable for business and administrative documents",
       systemPrompt |-> "systemPrompt of formal-hindi",
       userPrompt |-> "userPrompt of formal-hindi",
       isDefault |-> TRUE ],
     [ id |-> DefaultId("marathi-business"),
       name |-> <<"M", "a", "r", "a", "t", "h", "i", " ", "(", "B", "u", "s", "i", "n", "e", "s", "s", ")">>,
       description |-> "Formal Marathi translation suitable for business and administrative documents",
       systemPrompt |-> "systemPrompt of marathi-business",
       userPrompt |-> "userPrompt of marathi-business",
       isDefault |-> TRUE ] >>

\* the state of the edit form after cancelEditing, and at the first render
BlankForm == [name |-> <<>>, description |-> "", systemPrompt |-> "", userPrompt |-> ""]

\* what the user types into the name field (a blank or a name) and into
\* the user prompt field; the other two fields are left as the form got them
TypedNames == { <<" ">>, <<"T">> }
TypedPrompt == "typed prompt"

\* the effect on [currentTemplate, templates], run after a render in which
\* one of the two has changed
SelectCurrentEffect(p) ==
  IF p.currentTemplate /= Undefined
  THEN [p EXCEPT !.selectedTemplate = p.currentTemplate]
  ELSE IF Len(p.templates) > 0
  THEN [p EXCEPT !.selectedTemplate = Some(p.templates[1])]
  ELSE p

\* onPromptChange(template), as the parent takes it
OnPromptChange(p, template) ==
  IF p.controlled THEN [p EXCEPT !.currentTemplate = Some(template)] ELSE p

\* the editor once mounted on an empty localStorage: the first effect has
\* installed and stored the defaults, the second has selected the first
InitEditor ==
  /\ Mounted
  /\ probe \in { SelectCurrentEffect(
                   [templates |-> defaultTemplates, selectedTemplate |-> Undefined,
                    isEditing |-> FALSE, editForm |-> BlankForm,
                    storage |-> defaultTemplates, currentTemplate |-> Undefined,
                    controlled |-> controlled, now |-> 0,
                    saved |-> Undefined, reset |-> FALSE]) :
                 controlled \in BOOLEAN }

\* a click on a template of the list
SelectTemplate ==
  /\ ~probe.isEditing
  /\ \E k \in 1..Len(probe.templates) :
       probe' = [probe EXCEPT !.selectedTemplate = Some(probe.templates[k]),
                              !.saved = Undefined]
  /\ UNCHANGED appVars

\* startEditing(template)
startEditing(p, template) ==
  IF template.isDefault
  THEN LET copyTemplate == [template EXCEPT
                              !.id = CopyId(template.id, p.now + 1),
                              !.name = template.name \o <<" ", "(", "C", "o", "p", "y", ")">>,
                              !.isDefault = FALSE]
       IN  [p EXCEPT !.editForm = [name |-> copyTemplate.name,
                                   description |-> copyTemplate.description,
                                   systemPrompt |-> copyTemplate.systemPrompt,
                                   userPrompt |-> copyTemplate.userPrompt],
                     !.selectedTemplate = Some(copyTemplate),
                     !.isEditing = TRUE,
                     !.now = @ + 1]
  ELSE [p EXCEPT !.editForm = [name |-> template.name,
                               description |-> template.description,
                               systemPrompt |-> template.systemPrompt,
                               userPrompt |-> template.userPrompt],
                 !.selectedTemplate = Some(template),
                 !.isEditing = TRUE]

\* the edit icon of a template of the list, or the button of the detail
\* panel, which shows the selected template while no edit is under way
StartEditing ==
  /\ \E template \in Range(probe.templates)
                       \cup (IF probe.isEditing THEN {} ELSE Range(probe.selectedTemplate)) :
       /\ template.isDefault => probe.now < MaxIds
       /\ probe' = [startEditing(probe, template) EXCEPT !.saved = Undefined]
  /\ UNCHANGED appVars

\* cancelEditing()
CancelEditing ==
  /\ probe.isEditing
  /\ probe' = [probe EXCEPT !.isEditing = FALSE, !.editForm = BlankForm,
                            !.saved = Undefined]
  /\ UNCHANGED appVars

\* createNewTemplate()
CreateNewTemplate ==
  /\ probe' = [probe EXCEPT
                 !.editForm = [name |-> <<>>, description |-> "",
                               systemPrompt |-> defaultTemplates[1].systemPrompt,
                               userPrompt |-> defaultTemplates[1].userPrompt],
                 !.selectedTemplate = Undefined,
                 !.isEditing = TRUE,
                 !.saved = Undefined]
  /\ UNCHANGED appVars

\* the onChange handlers of the form's fields
EditForm ==
  /\ probe.isEditing
  /\ \/ \E name \in TypedNames :
          probe' = [probe EXCEPT !.editForm.name = name, !.saved = Undefined]
     \/ probe' = [probe EXCEPT !.editForm.userPrompt = TypedPrompt, !.saved = Undefined]
  /\ UNCHANGED appVars

\* saveTemplate(): with a blank name it alerts and returns; otherwise it
\* replaces the template that has the selected template's id, or appends the
\* new template when none is selected, stores the list, and the effect runs
\* on the new list
SaveTemplate ==
  /\ probe.isEditing
  /\ probe.selectedTemplate = Undefined => probe.now < MaxIds
  /\ IF Trim(probe.editForm.name) = <<>>
     THEN probe' = [probe EXCEPT !.saved = Undefined]
     ELSE LET selectedTemplate == probe.selectedTemplate
              newTemplate ==
                [id |-> IF selectedTemplate /= Undefined THEN selectedTemplate[1].id
                        ELSE NewId(probe.now + 1),
                 name |-> probe.editForm.name,
                 description |-> probe.editForm.description,
                 systemPrompt |-> probe.editForm.systemPrompt,
                 userPrompt |-> probe.editForm.userPrompt,
                 isDefault |-> FALSE]
              updatedTemplates ==
                IF selectedTemplate /= Undefined
                THEN [k \in 1..Len(probe.templates) |->
                        IF probe.templates[k].id = selectedTemplate[1].id
                        THEN newTemplate ELSE probe.templates[k]]
                ELSE Append(probe.templates, newTemplate)
          IN  probe' = SelectCurrentEffect(OnPromptChange(
                [probe EXCEPT
                   !.templates = updatedTemplates,
                   !.storage = updatedTemplates,
                   !.selectedTemplate = Some(newTemplate),
                   !.isEditing = FALSE,
                   !.now = IF selectedTemplate = Undefined THEN @ + 1 ELSE @,
                   !.saved = Some(newTemplate)],
                newTemplate))
  /\ UNCHANGED appVars

\* deleteTemplate(template), confirmed: the delete icon is there for the
\* templates that are no default, also while an edit is under way
DeleteTemplate ==
  /\ \E k \in 1..Len(probe.templates) :
       LET template == probe.templates[k]
           updatedTemplates == SelectSeq(probe.templates, LAMBDA t : t.id /= template.id)
       IN  /\ ~template.isDefault
           /\ probe' = SelectCurrentEffect(
                [probe EXCEPT
                   !.templates = updatedTemplates,
                   !.storage = updatedTemplates,
                   !.selectedTemplate =
                     IF @ /= Undefined /\ @[1].id = template.id
                     THEN (IF Len(updatedTemplates) > 0 THEN Some(updatedTemplates[1])
                           ELSE Undefined)
                     ELSE @,
                   !.saved = Undefined])
  /\ UNCHANGED appVars

\* resetToDefault(), confirmed
ResetToDefault ==
  /\ probe' = SelectCurrentEffect(
       [probe EXCEPT !.templates = defaultTemplates,
                     !.storage = defaultTemplates,
                     !.selectedTemplate = Some(defaultTemplates[1]),
                     !.saved = Undefined,
                     !.reset = TRUE])
  /\ UNCHANGED appVars

\* the button of the detail panel that hands the selected template to the
\* parent
UseTemplate ==
  /\ ~probe.isEditing
  /\ probe.selectedTemplate /= Undefined
  /\ probe' = SelectCurrentEffect(
       OnPromptChange([probe EXCEPT !.saved = Undefined], probe.selectedTemplate[1]))
  /\ UNCHANGED appVars

NextEditor ==
  \/ SelectTemplate
  \/ StartEditing
  \/ CancelEditing
  \/ CreateNewTemplate
  \/ EditForm
  \/ SaveTemplate
  \/ DeleteTemplate
  \/ ResetToDefault
  \/ UseTemplate

SpecEditor == InitEditor /\ [][NextEditor]_vars

\* C22: right after a successful saveTemplate the list of templates and the
\* stored list both hold a template with the saved name and prompt texts.
\* The template saved after "Copy & Edit" of a default has the id of the
\* copy, which is in no list, so the replacement replaces nothing, and TLC
\* finds this violated.
SavedTemplateIsListedAndStored ==
  probe.saved /= Undefined =>
    LET saved == probe.saved[1]
        Holds(list) ==
          \E k \in 1..Len(list) :
            /\ list[k].name = saved.name
            /\ list[k].systemPrompt = saved.systemPrompt
            /\ list[k].userPrompt = saved.userPrompt
    IN  Holds(probe.templates) /\ Holds(probe.storage)

\* C30: as long as Reset to Default has not been used, every built-in
\* default template is in the list as it was defined: its id, its name, its
\* prompts, and isDefault true.  Deleting the template under edit selects
\* the first template of the list while the form stays open, and saving then
\* overwrites that default, so TLC finds this violated.
DefaultsStayInList ==
  ~probe.reset =>
    \A d \in 1..Len(defaultTemplates) :
      \E k \in 1..Len(probe.templates) : probe.templates[k] = defaultTemplates[d]

====
